---- MODULE Spec2Model ----
(***************************************************************************)
(* A model of rp2040-flash: the raw flash access layer of src/lib.rs       *)
(* (routine resolver, write_flash_inner, read_flash_inner and the public   *)
(* operations built on them) and the sector overlay / configuration record *)
(* of examples/boot_counter.                                               *)
(*                                                                         *)
(* Memory contents are kept as a record [fill, ex]: every offset that is   *)
(* not in DOMAIN ex holds the byte fill, every other offset o holds ex[o]. *)
(* This is only a compact encoding of a total byte array: a 4096 byte      *)
(* sector that is erased is [fill |-> 255, ex |-> <<>>].                   *)
(***************************************************************************)
EXTENDS Integers, Sequences, FiniteSets, TLC

\* ------------------------------------------------------------ constants
FLASH_ORIGIN == 268435456
FLASH_END_MAX == FLASH_ORIGIN + 16 * 1024 * 1024
FLASH_SECTOR_SIZE == 4096
FLASH_ERASED_VALUE == 255
FLASH_PAGE_SIZE == 256
BOOT2_SIZE == 256
ADDR_SPACE == 16777216

\* Entry points, as the values a routine table slot can hold.  NULL is the
\* representation of Option::None for a function pointer.
NULL == 0
rom_connect_internal_flash == 1
rom_flash_exit_xip == 2
rom_flash_range_erase == 3
rom_flash_range_program == 4
rom_flash_flush_cache == 5
rom_flash_enter_cmd_xip == 6
\* The snapshot of the second stage loader, run from its first instruction.
boot2_start == 7

\* Addresses of caller owned buffers in RAM.
DATA_PTR == 536875008
PTRS_PTR == 537000000
CMD_PTR == 537000100
CMDBUF_PTR == 537000200
OUT_PTR == 537000300
BOOT2_PTR == 537000400

\* A pointer two bytes, one Thumb instruction, further into the snapshot.
boot2_fn_ptr_next_instruction == BOOT2_PTR + 2 + 1

\* (boot2 as *const u32 as *const u8).offset(1): the address of the
\* snapshot with bit 0, the Thumb bit of a branch target, set.
boot2_fn_ptr == BOOT2_PTR + 1
boot2_fn == boot2_fn_ptr

\* The bus controller (SSI) and its registers, by offset from its base.
SSI_BASE == 24 * 16777216
SSI_CTRLR0 == SSI_BASE
SSI_CTRLR1 == SSI_BASE + 4
SSI_SSIENR == SSI_BASE + 8
SSI_SR == SSI_BASE + 40
SSI_DR == SSI_BASE + 96
SR_RFNE == 8
SSI_FIFO_DEPTH == 16

\* The bytes written to the data register and the frames clocked in that
\* are followed in one transfer.
MaxTx == 4
\* The boots cut short by a loss of power that are followed.
MaxLosses == 2
MaxFrames == 12
TMOD_EEPROM == 3 * 256

\* ------------------------------------------------------- 32 bit words
\* A u32 is kept as its two 16 bit halves, so that the whole range up to
\* 4294967295 and the wrap around of the machine's arithmetic are in the
\* model.
HALF == 65536

W(n) == [hi |-> (n \div HALF) % HALF, lo |-> n % HALF]

W_MAX == [hi |-> HALF - 1, lo |-> HALF - 1]

\* adds / add: addition modulo 2^32
WAdd(a, b) ==
    LET l == a.lo + b.lo
    IN  [hi |-> (a.hi + b.hi + (l \div HALF)) % HALF, lo |-> l % HALF]

\* subs: subtraction modulo 2^32
WSub(a, b) ==
    LET l == a.lo - b.lo
        borrow == IF l < 0 THEN 1 ELSE 0
    IN  [hi |-> (a.hi - b.hi - borrow) % HALF, lo |-> l % HALF]

\* The low 24 bits of a word, as a number.
Low24(w) == (w.hi % 256) * HALF + w.lo

\* A word as a number of bytes to act on: the chip has ADDR_SPACE bytes,
\* so every count from ADDR_SPACE up covers all of it.
Count(w) == IF w.hi >= 256 THEN ADDR_SPACE ELSE w.hi * HALF + w.lo

\* ------------------------------------------------------- byte memories
Rd(m, o) == IF o \in DOMAIN m.ex THEN m.ex[o] ELSE m.fill

Filled(b) == [fill |-> b, ex |-> <<>>]

\* The memory that holds g(o) at every offset o of S and m elsewhere.
Put(m, S, g(_)) ==
    LET keep == {o \in DOMAIN m.ex : o \notin S}
        new  == {o \in S : g(o) # m.fill}
    IN  [fill |-> m.fill,
         ex   |-> [o \in keep \cup new |-> IF o \in new THEN g(o) ELSE m.ex[o]]]

\* Offsets of m in lo..hi-1 that may differ from the fill byte.
Marked(m, lo, hi) == {o \in DOMAIN m.ex : o >= lo /\ o < hi}

\* n bytes of src from offset from, as a memory of n bytes starting at 0.
Slice(src, from, n) ==
    [fill |-> src.fill,
     ex   |-> [o \in {p - from : p \in Marked(src, from, from + n)} |-> src.ex[o + from]]]

RECURSIVE BitAnd(_, _)
BitAnd(x, y) ==
    IF x = 0 \/ y = 0 THEN 0
    ELSE (x % 2) * (y % 2) + 2 * BitAnd(x \div 2, y \div 2)

\* ------------------------------------------------- the flash chip (ROM)
\* The boot ROM's erase: every 4096 byte sector that the range touches is
\* reset to the erased value.  The chip takes 24 address bits.
RomFlashRangeErase(fl, addr, count) ==
    LET lo == addr - (addr % FLASH_SECTOR_SIZE)
        hi == addr + count
        inRange(o) == \E k \in {0, ADDR_SPACE} : o + k >= lo /\ o + k < hi
    IN  [fill |-> fl.fill,
         ex   |-> [o \in {p \in DOMAIN fl.ex : ~inRange(p) \/ count = 0} |-> fl.ex[o]]]

\* The boot ROM's program: NOR flash can only clear bits, every byte of the
\* range becomes old AND new.
RomFlashRangeProgram(fl, addr, src, count) ==
    LET offs == IF src.fill = FLASH_ERASED_VALUE
                THEN Marked(src, 0, count)
                ELSE 0 .. (count - 1)
        tgt  == {(addr + i) % ADDR_SPACE : i \in offs}
        new(o) == BitAnd(Rd(fl, o), Rd(src, (o - addr) % ADDR_SPACE))
    IN  Put(fl, tgt, new)

\* ------------------------------------------------------------ the state
VARIABLES
    flash,      \* contents of the flash chip, by flash offset
    xip,        \* TRUE while the chip is memory mapped (execute in place)
    pc,         \* position of the single thread of control
    ret,        \* position to continue at when the public operation returns
    op,         \* the public operation in progress and its arguments
    ptrs,       \* the FlashFunctionPointers table of the operation
    boot2,      \* the operation's local boot2 buffer
    regs,       \* the registers the inline assembly uses
    data,       \* the caller's data slice (Option<&[u8]>)
    calls,      \* the routines invoked by the operation so far, in order
    ssi,        \* the bus controller: its registers and receive FIFO
    cmd,        \* the FlashCommand handed to read_flash_inner
    out,        \* the caller's output buffer and the slice of it to fill
    result,     \* the value the last public operation returned
    sector,     \* the FlashSector<T> the caller holds, if any
    origin,     \* how that FlashSector was made, and from which value
    val,        \* the payload last taken out of a FlashSector with value()
    stored,     \* main: the record as read from flash, before valid()
    conf,       \* main: the configuration in use
    updated_conf, \* main: the record read back after the update
    boots,      \* main: updates completed since power was first applied
    nops,       \* the calls the caller has made
    primask,    \* TRUE while core 0 has its interrupts disabled
    core1,      \* what the second core runs: ROM code or code in flash
    earlier     \* history: the largest counter that a boot now ended obtained

hw == <<flash, xip, ssi>>
rd == <<cmd, out, result>>
drv == <<pc, ret, op, ptrs, boot2, regs, data, calls>>
cpu == <<primask, core1>>
app == <<sector, origin, val, stored, conf, updated_conf, boots, nops, cpu,
        earlier>>
vars == <<hw, drv, rd, app>>

NoData == [some |-> FALSE, ptr |-> NULL, len |-> 0, mem |-> Filled(0)]
NoOp == [name |-> "none", addr |-> 0, len |-> 0, use_boot2 |-> FALSE]
NoPtrs == [connect_internal_flash |-> NULL, flash_exit_xip |-> NULL,
           flash_range_erase |-> NULL, flash_range_program |-> NULL,
           flash_flush_cache |-> NULL, flash_enter_cmd_xip |-> NULL]
ZeroRegs == [r0 |-> W(0), r1 |-> W(0), r2 |-> W(0), r3 |-> W(0), r4 |-> W(0),
             r5 |-> W(0), r7 |-> W(0), r8 |-> W(0), r9 |-> W(0), r10 |-> W(0),
             rp |-> W(0)]
NoCmd == [cmd_addr |-> W(NULL), cmd_addr_len |-> W(0), dummy_len |-> W(0),
          data |-> W(NULL), data_len |-> W(0), bytes |-> <<>>]
NoOut == [base |-> NULL, size |-> 0, ptr |-> NULL, len |-> 0,
          mem |-> Filled(0), oob |-> FALSE]

\* The values a called routine may leave in the caller saved registers.
ClobberValues == {W(0), [hi |-> 57005, lo |-> 48879]}

\* ------------------------------------------------- the routine resolver
\* The table with the erase routine looked up whatever the flag.
flash_function_pointers_always_erase(erase, write) ==
    [connect_internal_flash |-> rom_connect_internal_flash,
     flash_exit_xip         |-> rom_flash_exit_xip,
     flash_range_erase      |-> rom_flash_range_erase,
     flash_range_program    |-> IF write THEN rom_flash_range_program ELSE NULL,
     flash_flush_cache      |-> rom_flash_flush_cache,
     flash_enter_cmd_xip    |-> rom_flash_enter_cmd_xip]

flash_function_pointers(erase, write) ==
    [connect_internal_flash |-> rom_connect_internal_flash,
     flash_exit_xip         |-> rom_flash_exit_xip,
     flash_range_erase      |-> IF erase THEN rom_flash_range_erase ELSE NULL,
     flash_range_program    |-> IF write THEN rom_flash_range_program ELSE NULL,
     flash_flush_cache      |-> rom_flash_flush_cache,
     flash_enter_cmd_xip    |-> rom_flash_enter_cmd_xip]

flash_function_pointers_with_boot2(erase, write) ==
    [connect_internal_flash |-> rom_connect_internal_flash,
     flash_exit_xip         |-> rom_flash_exit_xip,
     flash_range_erase      |-> IF erase THEN rom_flash_range_erase ELSE NULL,
     flash_range_program    |-> IF write THEN rom_flash_range_program ELSE NULL,
     flash_flush_cache      |-> rom_flash_flush_cache,
     flash_enter_cmd_xip    |-> boot2_fn]

\* rom_data::memcpy44(&mut boot2, 0x10000000, 256): a load through the XIP
\* window, which shows the chip's bytes only while it is memory mapped.
\* The boot2 array left as it is declared, [0u32; 64].
memcpy44_boot2_missing == Filled(0)

\* The copy taken from the 256 bytes after the loader.
memcpy44_boot2_next_page ==
    IF xip THEN Slice(flash, BOOT2_SIZE, BOOT2_SIZE) ELSE Filled(0)

memcpy44_boot2 ==
    IF xip THEN Slice(flash, 0, BOOT2_SIZE) ELSE Filled(0)

\* let mut boot2 = [0u32; 256 / 4]; let ptrs = if use_boot2 {..} else {..};
ResolveFor(erase, write, use_boot2) ==
    /\ boot2' = IF use_boot2 THEN memcpy44_boot2 ELSE Filled(0)
    /\ ptrs' = IF use_boot2
               THEN flash_function_pointers_with_boot2(erase, write)
               ELSE flash_function_pointers(erase, write)

\* ------------------------------------------------ the public operations
\* data.map(|d| d.as_ptr()).unwrap_or(core::ptr::null())
DataPtrOf(d) == IF d.some THEN d.ptr ELSE NULL

\* The operands of the asm block of write_flash_inner.
EnterWriteFlashInner(addr, len, d) ==
    /\ regs' = [ZeroRegs EXCEPT !.r0 = W(addr), !.r1 = W(len),
                                !.r2 = W(DataPtrOf(d)), !.rp = W(PTRS_PTR)]
    /\ data' = d
    /\ calls' = <<>>
    /\ pc' = "w_connect"
    /\ UNCHANGED rd

\* flash_range_erase resolving the program entry as well.
flash_range_erase_with_program(addr, len, use_boot2, k) ==
    /\ ResolveFor(TRUE, TRUE, use_boot2)
    /\ EnterWriteFlashInner(addr, len, NoData)
    /\ op' = [name |-> "flash_range_erase", addr |-> addr, len |-> len,
              use_boot2 |-> use_boot2]
    /\ ret' = k
    /\ UNCHANGED hw

flash_range_erase(addr, len, use_boot2, k) ==
    /\ ResolveFor(TRUE, FALSE, use_boot2)
    /\ EnterWriteFlashInner(addr, len, NoData)
    /\ op' = [name |-> "flash_range_erase", addr |-> addr, len |-> len,
              use_boot2 |-> use_boot2]
    /\ ret' = k
    /\ UNCHANGED hw

\* flash_range_erase_and_program resolving no erase entry.
flash_range_erase_and_program_no_erase(addr, d, use_boot2, k) ==
    /\ ResolveFor(FALSE, TRUE, use_boot2)
    /\ EnterWriteFlashInner(addr, d.len, d)
    /\ op' = [name |-> "flash_range_erase_and_program", addr |-> addr,
              len |-> d.len, use_boot2 |-> use_boot2]
    /\ ret' = k
    /\ UNCHANGED hw

flash_range_erase_and_program(addr, d, use_boot2, k) ==
    /\ ResolveFor(TRUE, TRUE, use_boot2)
    /\ EnterWriteFlashInner(addr, d.len, d)
    /\ op' = [name |-> "flash_range_erase_and_program", addr |-> addr,
              len |-> d.len, use_boot2 |-> use_boot2]
    /\ ret' = k
    /\ UNCHANGED hw

flash_range_program(addr, d, use_boot2, k) ==
    /\ ResolveFor(FALSE, TRUE, use_boot2)
    /\ EnterWriteFlashInner(addr, d.len, d)
    /\ op' = [name |-> "flash_range_program", addr |-> addr,
              len |-> d.len, use_boot2 |-> use_boot2]
    /\ ret' = k
    /\ UNCHANGED hw

\* ---------------------------------------------------- write_flash_inner
\* ldr r4, [p, #off] where p is expected to point at the routine table.
PtrsLd(p, off) ==
    IF p # W(PTRS_PTR) THEN W(NULL)
    ELSE CASE off = 0  -> W(ptrs.connect_internal_flash)
           [] off = 4  -> W(ptrs.flash_exit_xip)
           [] off = 8  -> W(ptrs.flash_range_erase)
           [] off = 12 -> W(ptrs.flash_range_program)
           [] off = 16 -> W(ptrs.flash_flush_cache)
           [] off = 20 -> W(ptrs.flash_enter_cmd_xip)
           [] OTHER    -> W(NULL)

\* What a pointer handed to a ROM routine points at.
Deref(p) == IF data.some /\ p = W(data.ptr) THEN data.mem ELSE Filled(0)

\* The second stage loader, as the first 256 bytes of flash hold it.
Boot2Image == [fill |-> FLASH_ERASED_VALUE,
               ex |-> (0 :> 0) @@ (1 :> 181) @@ (2 :> 75) @@ (255 :> 122)]

\* The loaded boot2 copy restores XIP only if it is the loader's code.
Boot2Intact ==
    \A i \in 0 .. (BOOT2_SIZE - 1) : Rd(boot2, i) = Rd(Boot2Image, i)

BitOr(x, y) == x + y - BitAnd(x, y)

\* The controller as flash_exit_xip leaves it: enabled, 8 bit frames,
\* transmit-and-receive mode, nothing in flight.
SsiSerial == [enr |-> 1, ctrlr0 |-> [hi |-> 7, lo |-> 0], ctrlr1 |-> W(0),
              tx |-> <<>>, rx |-> <<>>, left |-> 0, got |-> 0]

\* The controller as the XIP restorer leaves it: enabled, 32 bit frames,
\* read mode; CTRLR1 is not touched by the restorer.
SsiXip(s) == [enr |-> 1, ctrlr0 |-> [hi |-> 31, lo |-> TMOD_EEPROM],
              ctrlr1 |-> s.ctrlr1,
              tx |-> <<>>, rx |-> <<>>, left |-> 0, got |-> 0]

\* The routine an entry address stands for.
\* blx r4 with bit 0 of r4 set runs the code at r4 - 1.
Routine(w) ==
    IF w.hi = 0 THEN (IF w.lo < boot2_start THEN w.lo ELSE NULL)
    ELSE IF w.lo % 2 = 1 /\ WSub(w, W(1)) = W(BOOT2_PTR) THEN boot2_start
    ELSE NULL

CallRecord(rg) ==
    [fn |-> Routine(rg.r4),
     args |-> IF Routine(rg.r4) = rom_flash_range_erase
                THEN <<rg.r0, rg.r1, rg.r2, rg.r3>>
              ELSE IF Routine(rg.r4) = rom_flash_range_program
                THEN <<rg.r0, rg.r1, rg.r2>>
              ELSE <<>>]

\* blx r4 with the registers rg: the routine acts on the chip and returns
\* with r0-r3 overwritten.
Blx(rg) ==
    /\ calls' = Append(calls, CallRecord(rg))
    /\ \E c \in ClobberValues :
          regs' = [rg EXCEPT !.r0 = c, !.r1 = c, !.r2 = c, !.r3 = c]
    /\ flash' = IF Routine(rg.r4) = rom_flash_range_erase
                  THEN RomFlashRangeErase(flash, Low24(rg.r0), Count(rg.r1))
                ELSE IF Routine(rg.r4) = rom_flash_range_program
                  THEN RomFlashRangeProgram(flash, Low24(rg.r0), Deref(rg.r1),
                                            Count(rg.r2))
                ELSE flash
    /\ xip' = IF Routine(rg.r4) = rom_flash_exit_xip THEN FALSE
              ELSE IF Routine(rg.r4) = rom_flash_enter_cmd_xip THEN TRUE
              ELSE IF Routine(rg.r4) = boot2_start THEN Boot2Intact
              ELSE xip
    /\ ssi' = IF Routine(rg.r4) = rom_flash_exit_xip THEN SsiSerial
              ELSE IF Routine(rg.r4) = rom_flash_enter_cmd_xip
                      \/ (Routine(rg.r4) = boot2_start /\ Boot2Intact)
                   THEN SsiXip(ssi)
              ELSE ssi

\* mov r8, r0; mov r9, r2; mov r10, r1; ldr r4, [ptrs, #0]; blx r4
W_connect ==
    /\ pc = "w_connect"
    /\ Blx([regs EXCEPT !.r8 = regs.r0, !.r9 = regs.r2, !.r10 = regs.r1,
                        !.r4 = PtrsLd(regs.rp, 0)])
    /\ pc' = "w_exit_xip"
    /\ UNCHANGED <<ret, op, ptrs, boot2, data, rd, app>>

\* ldr r4, [ptrs, #4]; blx r4
W_exit_xip ==
    /\ pc = "w_exit_xip"
    /\ Blx([regs EXCEPT !.r4 = PtrsLd(regs.rp, 4)])
    /\ pc' = "w_erase"
    /\ UNCHANGED <<ret, op, ptrs, boot2, data, rd, app>>

\* The erase step loading its routine from offset 12, the program entry.
W_erase_wrong_slot ==
    /\ pc = "w_erase"
    /\ LET rg == [regs EXCEPT !.r0 = regs.r8, !.r1 = regs.r10,
                              !.r2 = [hi |-> 32768, lo |-> 0], !.r3 = W(0),
                              !.r4 = PtrsLd(regs.rp, 12)]
       IN  IF rg.r4 = W(0)
           THEN regs' = rg /\ UNCHANGED <<flash, xip, ssi, calls>>
           ELSE Blx(rg)
    /\ pc' = "w_program"
    /\ UNCHANGED <<ret, op, ptrs, boot2, data, rd, app>>

\* mov r0, r8; mov r1, r10; r2 = 1 << 31; r3 = 0; ldr r4, [ptrs, #8];
\* cmp r4, #0; beq 1f; blx r4
W_erase ==
    /\ pc = "w_erase"
    /\ LET rg == [regs EXCEPT !.r0 = regs.r8, !.r1 = regs.r10,
                              !.r2 = [hi |-> 32768, lo |-> 0], !.r3 = W(0),
                              !.r4 = PtrsLd(regs.rp, 8)]
       IN  IF rg.r4 = W(0)
           THEN regs' = rg /\ UNCHANGED <<flash, xip, ssi, calls>>
           ELSE Blx(rg)
    /\ pc' = "w_program"
    /\ UNCHANGED <<ret, op, ptrs, boot2, data, rd, app>>

\* The program step taking r0-r2 as the previous call left them.
W_program_no_reload ==
    /\ pc = "w_program"
    /\ LET rg == [regs EXCEPT !.r4 = PtrsLd(regs.rp, 12)]
       IN  IF rg.r4 = W(0)
           THEN regs' = rg /\ UNCHANGED <<flash, xip, ssi, calls>>
           ELSE Blx(rg)
    /\ pc' = "w_flush"
    /\ UNCHANGED <<ret, op, ptrs, boot2, data, rd, app>>

\* mov r0, r8; mov r1, r9; mov r2, r10; ldr r4, [ptrs, #12];
\* cmp r4, #0; beq 1f; blx r4
W_program ==
    /\ pc = "w_program"
    /\ LET rg == [regs EXCEPT !.r0 = regs.r8, !.r1 = regs.r9,
                              !.r2 = regs.r10,
                              !.r4 = PtrsLd(regs.rp, 12)]
       IN  IF rg.r4 = W(0)
           THEN regs' = rg /\ UNCHANGED <<flash, xip, ssi, calls>>
           ELSE Blx(rg)
    /\ pc' = "w_flush"
    /\ UNCHANGED <<ret, op, ptrs, boot2, data, rd, app>>

\* ldr r4, [ptrs, #16]; blx r4
W_flush ==
    /\ pc = "w_flush"
    /\ Blx([regs EXCEPT !.r4 = PtrsLd(regs.rp, 16)])
    /\ pc' = "w_enter_xip"
    /\ UNCHANGED <<ret, op, ptrs, boot2, data, rd, app>>

\* ldr r4, [ptrs, #20]; blx r4, and the return to the public operation's
\* caller.
W_enter_xip ==
    /\ pc = "w_enter_xip"
    /\ Blx([regs EXCEPT !.r4 = PtrsLd(regs.rp, 20)])
    /\ pc' = ret
    /\ UNCHANGED <<ret, op, ptrs, boot2, data, rd, app>>

write_flash_inner ==
    W_connect \/ W_exit_xip \/ W_erase \/ W_program \/ W_flush \/ W_enter_xip

\* ------------------------------------------------------ the flash chip
\* The identification the attached chip answers with (a Winbond W25Q16JV).
CHIP_JEDEC == <<239, 112, 21>>
CHIP_UNIQUE_ID == <<230, 98, 92, 5, 203, 74, 60, 33>>

\* Frame k (from 0) the chip returns after the command bytes tx.
ChipResponse(tx, k) ==
    IF tx = <<>> THEN FLASH_ERASED_VALUE
    ELSE IF tx[1] = 159 /\ k < Len(CHIP_JEDEC) THEN CHIP_JEDEC[k + 1]
    ELSE IF tx[1] = 75 /\ k >= 4 /\ k - 4 < Len(CHIP_UNIQUE_ID)
         THEN CHIP_UNIQUE_ID[k - 4 + 1]
    ELSE FLASH_ERASED_VALUE

\* The number of frames an enabled controller receives: in the read modes
\* it is the 16 bit field NDF of CTRLR1, plus one.
FramesToReceive(s) ==
    IF BitAnd(s.ctrlr0.lo, TMOD_EEPROM) = TMOD_EEPROM
    THEN s.ctrlr1.lo + 1 ELSE 0

\* str v, [a] for an address a of the controller.
SsiStore(s, a, v) ==
    IF a = W(SSI_SSIENR) THEN
        IF v.lo % 2 = 1
        THEN [s EXCEPT !.enr = 1, !.tx = <<>>, !.rx = <<>>,
                       !.left = FramesToReceive(s), !.got = 0]
        ELSE [s EXCEPT !.enr = 0, !.tx = <<>>, !.rx = <<>>,
                       !.left = 0, !.got = 0]
    ELSE IF a = W(SSI_CTRLR0) THEN [s EXCEPT !.ctrlr0 = v]
    ELSE IF a = W(SSI_CTRLR1) THEN [s EXCEPT !.ctrlr1 = v]
    ELSE IF a = W(SSI_DR) /\ s.enr = 1
         THEN [s EXCEPT !.tx = Append(s.tx, v.lo % 256)]
    ELSE s

\* ldr from an address a of the controller: the value read.
SsiLoad(s, a) ==
    IF a = W(SSI_CTRLR0) THEN s.ctrlr0
    ELSE IF a = W(SSI_CTRLR1) THEN s.ctrlr1
    ELSE IF a = W(SSI_SSIENR) THEN W(s.enr)
    ELSE IF a = W(SSI_SR) THEN (IF s.rx # <<>> THEN W(SR_RFNE) ELSE W(0))
    ELSE IF a = W(SSI_DR) THEN (IF s.rx # <<>> THEN W(Head(s.rx)) ELSE W(0))
    ELSE W(0)

\* Reading the data register takes the frame out of the receive FIFO.
SsiPop(s, a) ==
    IF a = W(SSI_DR) /\ s.rx # <<>> THEN [s EXCEPT !.rx = Tail(s.rx)] ELSE s

\* The controller clocks in the next frame of the response.
SsiShift ==
    /\ ssi.enr = 1
    /\ ssi.got < MaxFrames
    /\ ssi.tx # <<>>
    /\ ssi.left > 0
    /\ Len(ssi.rx) < SSI_FIFO_DEPTH
    /\ ssi' = [ssi EXCEPT !.rx = Append(ssi.rx, ChipResponse(ssi.tx, ssi.got)),
                          !.left = ssi.left - 1, !.got = ssi.got + 1]
    /\ UNCHANGED <<flash, xip, drv, rd, app>>

\* ----------------------------------------------------- read_flash_inner
\* ldr from [p, #off] where p is expected to point at the FlashCommand.
CmdLd(p, off) ==
    IF p # W(CMD_PTR) THEN W(0)
    ELSE CASE off = 0  -> cmd.cmd_addr
           [] off = 4  -> cmd.cmd_addr_len
           [] off = 8  -> cmd.dummy_len
           [] off = 12 -> cmd.data
           [] off = 16 -> cmd.data_len
           [] OTHER    -> W(0)

\* ldrb from the address a, expected to be in the command bytes.
CmdByte(a) ==
    LET i == WSub(a, cmd.cmd_addr)
    IN  IF i.hi = 0 /\ i.lo < Len(cmd.bytes) THEN W(cmd.bytes[i.lo + 1])
        ELSE W(0)

\* strb v, [a] for an address a expected to be in the output buffer.
OutStore(o, a, v) ==
    LET i == WSub(a, W(o.base))
    IN  IF i.hi = 0 /\ i.lo < o.size
        THEN [o EXCEPT !.mem = Put(o.mem, {i.lo}, LAMBDA x : v.lo % 256)]
        ELSE [o EXCEPT !.oob = TRUE]

\* The operands of the asm block of read_flash_inner.
EnterReadFlashInner(c, o) ==
    /\ regs' = [ZeroRegs EXCEPT !.r0 = W(CMD_PTR), !.r1 = W(PTRS_PTR)]
    /\ cmd' = c
    /\ out' = o
    /\ data' = NoData
    /\ calls' = <<>>
    /\ result' = W(0)
    /\ pc' = "r_connect"

\* read_flash(cmd_addr, dummy_len, out, ptrs)
read_flash(cmd_addr, dummy_len, o) ==
    EnterReadFlashInner([cmd_addr     |-> W(CMDBUF_PTR),
                         cmd_addr_len |-> W(Len(cmd_addr)),
                         dummy_len    |-> W(dummy_len),
                         data         |-> W(o.ptr),
                         data_len     |-> W(o.len),
                         bytes        |-> cmd_addr], o)

flash_unique_id(outlen, use_boot2, k) ==
    /\ ResolveFor(FALSE, FALSE, use_boot2)
    /\ read_flash(<<75>>, 4,
                  [base |-> OUT_PTR, size |-> outlen, ptr |-> OUT_PTR,
                   len |-> outlen, mem |-> Filled(0), oob |-> FALSE])
    /\ op' = [name |-> "flash_unique_id", addr |-> 0, len |-> outlen,
              use_boot2 |-> use_boot2]
    /\ ret' = k
    /\ UNCHANGED hw

\* let mut id = [0u8; 4]; read_flash(&cmd, 0, &mut id[1..4], ..)
flash_jedec_id(use_boot2, k) ==
    /\ ResolveFor(FALSE, FALSE, use_boot2)
    /\ read_flash(<<159>>, 0,
                  [base |-> OUT_PTR, size |-> 4, ptr |-> OUT_PTR + 1,
                   len |-> 3, mem |-> Filled(0), oob |-> FALSE])
    /\ op' = [name |-> "flash_jedec_id", addr |-> 0, len |-> 0,
              use_boot2 |-> use_boot2]
    /\ ret' = k
    /\ UNCHANGED hw

\* The four bytes taken least significant first.
from_le_bytes(m) ==
    [hi |-> Rd(m, 3) * 256 + Rd(m, 2), lo |-> Rd(m, 1) * 256 + Rd(m, 0)]

\* u32::from_be_bytes(id)
from_be_bytes(m) ==
    [hi |-> Rd(m, 0) * 256 + Rd(m, 1), lo |-> Rd(m, 2) * 256 + Rd(m, 3)]

RStep(next) ==
    /\ pc' = next
    /\ UNCHANGED <<ret, op, ptrs, boot2, data, flash, xip, calls, cmd, result,
                   app>>

\* mov r10, r0; mov r5, r1; ldr r4, [r5, #0]; blx r4
R_connect ==
    /\ pc = "r_connect"
    /\ Blx([regs EXCEPT !.r10 = regs.r0, !.r5 = regs.r1,
                        !.r4 = PtrsLd(regs.r1, 0)])
    /\ pc' = "r_exit_xip"
    /\ UNCHANGED <<ret, op, ptrs, boot2, data, rd, app>>

\* ldr r4, [r5, #4]; blx r4
R_exit_xip ==
    /\ pc = "r_exit_xip"
    /\ Blx([regs EXCEPT !.r4 = PtrsLd(regs.r5, 4)])
    /\ pc' = "r_disable"
    /\ UNCHANGED <<ret, op, ptrs, boot2, data, rd, app>>

\* mov r7, r10; r4 = 0x18000000; movs r0, #0; str r0, [r4, #8]
R_disable ==
    /\ pc = "r_disable"
    /\ regs' = [regs EXCEPT !.r7 = regs.r10, !.r4 = W(SSI_BASE), !.r0 = W(0)]
    /\ ssi' = SsiStore(ssi, WAdd(W(SSI_BASE), W(8)), W(0))
    /\ UNCHANGED out
    /\ RStep("r_ctrlr0")

\* r0 = 0x300; ldr r1, [r4, #0]; orrs r1, r0; str r1, [r4, #0]
R_ctrlr0 ==
    /\ pc = "r_ctrlr0"
    /\ LET old == SsiLoad(ssi, regs.r4)
           v == [hi |-> old.hi, lo |-> BitOr(old.lo, TMOD_EEPROM)]
       IN  /\ regs' = [regs EXCEPT !.r0 = W(TMOD_EEPROM), !.r1 = v]
           /\ ssi' = SsiStore(ssi, regs.r4, v)
    /\ UNCHANGED out
    /\ RStep("r_ctrlr1")

\* The transfer length programmed without the subs r0, #1.
R_ctrlr1_no_decrement ==
    /\ pc = "r_ctrlr1"
    /\ LET d == CmdLd(regs.r7, 8)
           n == CmdLd(regs.r7, 16)
           v == WAdd(d, n)
       IN  /\ regs' = [regs EXCEPT !.r0 = v, !.r1 = n]
           /\ ssi' = SsiStore(ssi, WAdd(regs.r4, W(4)), v)
    /\ UNCHANGED out
    /\ RStep("r_enable")

\* ldr r0, [r7, #8]; ldr r1, [r7, #16]; add r0, r1; subs r0, #1;
\* str r0, [r4, #0x04]
R_ctrlr1 ==
    /\ pc = "r_ctrlr1"
    /\ LET d == CmdLd(regs.r7, 8)
           n == CmdLd(regs.r7, 16)
           v == WSub(WAdd(d, n), W(1))
       IN  /\ regs' = [regs EXCEPT !.r0 = v, !.r1 = n]
           /\ ssi' = SsiStore(ssi, WAdd(regs.r4, W(4)), v)
    /\ UNCHANGED out
    /\ RStep("r_enable")

\* movs r0, #1; str r0, [r4, #8]; mov r2, r4; adds r2, 0x60;
\* ldr r0, [r7, #0]; ldr r1, [r7, #4]
R_enable ==
    /\ pc = "r_enable"
    /\ regs' = [regs EXCEPT !.r2 = WAdd(regs.r4, W(96)),
                            !.r0 = CmdLd(regs.r7, 0), !.r1 = CmdLd(regs.r7, 4)]
    /\ ssi' = SsiStore(ssi, WAdd(regs.r4, W(8)), W(1))
    /\ UNCHANGED out
    /\ RStep("r_cmd")

\* 10: ldrb r3, [r0]; strb r3, [r2]; adds r0, #1; subs r1, #1; bne 10b
\* and, past the loop, ldr r1, [r7, #8]; cmp r1, #0; beq 9f
R_cmd ==
    /\ pc = "r_cmd"
    /\ Len(ssi.tx) < MaxTx
    /\ LET b == CmdByte(regs.r0)
           n == WSub(regs.r1, W(1))
           d == CmdLd(regs.r7, 8)
       IN  /\ ssi' = SsiStore(ssi, regs.r2, b)
           /\ IF n # W(0)
              THEN /\ regs' = [regs EXCEPT !.r3 = b, !.r1 = n,
                                           !.r0 = WAdd(regs.r0, W(1))]
                   /\ RStep("r_cmd")
              ELSE /\ regs' = [regs EXCEPT !.r3 = b, !.r1 = d,
                                           !.r0 = WAdd(regs.r0, W(1))]
                   /\ RStep(IF d = W(0) THEN "r_data_init" ELSE "r_dummy_poll")
    /\ UNCHANGED out

\* 4: ldr r3, [r4, #0x28]; movs r2, #0x8; tst r3, r2; beq 4b
R_dummy_poll ==
    /\ pc = "r_dummy_poll"
    /\ LET sr == SsiLoad(ssi, WAdd(regs.r4, W(40)))
       IN  /\ regs' = [regs EXCEPT !.r3 = sr, !.r2 = W(SR_RFNE)]
           /\ RStep(IF BitAnd(sr.lo, SR_RFNE) = 0 THEN "r_dummy_poll"
                    ELSE "r_dummy_read")
    /\ UNCHANGED <<ssi, out>>

\* mov r2, r4; adds r2, 0x60; ldrb r3, [r2]; subs r1, #1; bne 4b
R_dummy_read ==
    /\ pc = "r_dummy_read"
    /\ LET n == WSub(regs.r1, W(1))
           dr == WAdd(regs.r4, W(96))
       IN  /\ regs' = [regs EXCEPT !.r2 = dr, !.r3 = SsiLoad(ssi, dr), !.r1 = n]
           /\ ssi' = SsiPop(ssi, dr)
           /\ RStep(IF n # W(0) THEN "r_dummy_poll" ELSE "r_data_init")
    /\ UNCHANGED out

\* 9: ldr r0, [r7, #12]; ldr r1, [r7, #16]
R_data_init ==
    /\ pc = "r_data_init"
    /\ regs' = [regs EXCEPT !.r0 = CmdLd(regs.r7, 12), !.r1 = CmdLd(regs.r7, 16)]
    /\ UNCHANGED <<ssi, out>>
    /\ RStep("r_data_poll")

\* 2: ldr r3, [r4, #0x28]; movs r2, #0x8; tst r3, r2; beq 2b
R_data_poll ==
    /\ pc = "r_data_poll"
    /\ LET sr == SsiLoad(ssi, WAdd(regs.r4, W(40)))
       IN  /\ regs' = [regs EXCEPT !.r3 = sr, !.r2 = W(SR_RFNE)]
           /\ RStep(IF BitAnd(sr.lo, SR_RFNE) = 0 THEN "r_data_poll"
                    ELSE "r_data_read")
    /\ UNCHANGED <<ssi, out>>

\* mov r2, r4; adds r2, 0x60; ldrb r3, [r2]; strb r3, [r0]; adds r0, #1;
\* subs r1, #1; bne 2b
R_data_read ==
    /\ pc = "r_data_read"
    /\ LET n == WSub(regs.r1, W(1))
           dr == WAdd(regs.r4, W(96))
           b == SsiLoad(ssi, dr)
       IN  /\ regs' = [regs EXCEPT !.r2 = dr, !.r3 = b, !.r1 = n,
                                   !.r0 = WAdd(regs.r0, W(1))]
           /\ out' = OutStore(out, regs.r0, b)
           /\ ssi' = SsiPop(ssi, dr)
           /\ RStep(IF n # W(0) THEN "r_data_poll" ELSE "r_disable2")

\* movs r0, #0; str r0, [r4, #8]
R_disable2 ==
    /\ pc = "r_disable2"
    /\ regs' = [regs EXCEPT !.r0 = W(0)]
    /\ ssi' = SsiStore(ssi, WAdd(regs.r4, W(8)), W(0))
    /\ UNCHANGED out
    /\ RStep("r_ctrlr1_reset")

\* The second disable not followed by the store of zero to CTRLR1.
R_ctrlr1_reset_skipped ==
    /\ pc = "r_ctrlr1_reset"
    /\ UNCHANGED <<ssi, regs, out>>
    /\ RStep("r_enter_xip")

\* str r0, [r4, #4]
R_ctrlr1_reset ==
    /\ pc = "r_ctrlr1_reset"
    /\ ssi' = SsiStore(ssi, WAdd(regs.r4, W(4)), regs.r0)
    /\ UNCHANGED <<regs, out>>
    /\ RStep("r_enter_xip")

\* ldr r4, [r5, #20]; blx r4, and the return through read_flash to the
\* public operation, where flash_jedec_id computes u32::from_be_bytes(id).
R_enter_xip ==
    /\ pc = "r_enter_xip"
    /\ Blx([regs EXCEPT !.r4 = PtrsLd(regs.r5, 20)])
    /\ result' = IF op.name = "flash_jedec_id" THEN from_be_bytes(out.mem)
                 ELSE W(0)
    /\ pc' = ret
    /\ UNCHANGED <<ret, op, ptrs, boot2, data, cmd, out, app>>

read_flash_inner ==
    \/ R_connect \/ R_exit_xip \/ R_disable \/ R_ctrlr0 \/ R_ctrlr1
    \/ R_enable \/ R_cmd \/ R_dummy_poll \/ R_dummy_read \/ R_data_init
    \/ R_data_poll \/ R_data_read \/ R_disable2 \/ R_ctrlr1_reset
    \/ R_enter_xip

\* ---------------------------------------------------------------- Conf
VALIDITY_MARKER == 85
CONF_SIZE == 8

Conf_default == [validity |-> VALIDITY_MARKER, boot_counter |-> W(0)]

\* A record built without the marker.
Conf_new_unmarked(counter) == [validity |-> 0, boot_counter |-> counter]

Conf_new(counter) == [validity |-> VALIDITY_MARKER, boot_counter |-> counter]

\* A validity test that only rules out the erased byte.
Conf_is_valid_not_erased(c) == c.validity # FLASH_ERASED_VALUE

Conf_is_valid(c) == c.validity = VALIDITY_MARKER

Conf_valid(c) == IF Conf_is_valid(c) THEN c ELSE Conf_default

Conf_boot_counter(c) == c.boot_counter

\* The repr(C) layout of Conf: the marker at offset 0, three padding bytes,
\* the counter at offsets 4..7, least significant byte first.  A padding
\* byte has no defined value: pad is the byte the build leaves there.
ConfBytes(c, pad) ==
    LET n == c.boot_counter
        g(o) == CASE o = 0 -> c.validity
                  [] o = 4 -> n.lo % 256
                  [] o = 5 -> n.lo \div 256
                  [] o = 6 -> n.hi % 256
                  [] o = 7 -> n.hi \div 256
                  [] OTHER -> pad
    IN  Put(Filled(FLASH_ERASED_VALUE), 0 .. (CONF_SIZE - 1), g)

\* MaybeUninit<Conf>::assume_init() of the bytes m.
ConfOfBytes(m) ==
    [validity |-> Rd(m, 0),
     boot_counter |-> [lo |-> Rd(m, 4) + 256 * Rd(m, 5),
                       hi |-> Rd(m, 6) + 256 * Rd(m, 7)]]

PadValues == {0, 170}

\* -------------------------------------------------------- FlashSector
\* size_of::<T>() of the payload types the overlay is used with.
SizeOf(T) == CASE T = "Conf" -> CONF_SIZE
               [] T = "Block" -> FLASH_SECTOR_SIZE
               [] T = "Big" -> FLASH_SECTOR_SIZE + 1

NoSector == [some |-> FALSE, T |-> "Conf", mem |-> Filled(FLASH_ERASED_VALUE)]

\* const fn is_aligned(addr, alignment): addr & (alignment - 1) == 0
is_aligned(addr, alignment) == BitAnd(addr, alignment - 1) = 0

\* impl Default: data: [FLASH_ERASED_VALUE; FLASH_SECTOR_SIZE]
FlashSector_default(T) ==
    [some |-> TRUE, T |-> T, mem |-> Filled(FLASH_ERASED_VALUE)]

\* new without the assignment of the value member.
FlashSector_new_unassigned(T, image) == FlashSector_default(T)

\* FlashSector::new(value), past its assertion: the bytes of value laid
\* over the default.
FlashSector_new(T, image) ==
    [some |-> TRUE, T |-> T,
     mem |-> Put(FlashSector_default(T).mem, 0 .. (SizeOf(T) - 1),
                 LAMBDA o : Rd(image, o))]

FlashSector_new_ok(T) == SizeOf(T) <= FLASH_SECTOR_SIZE

\* A load of n bytes at mem_addr: through the XIP window they are the
\* chip's bytes only while it is memory mapped.
XipLoad(mem_addr, n) ==
    IF xip /\ mem_addr >= FLASH_ORIGIN /\ mem_addr + n <= FLASH_END_MAX
    THEN Slice(flash, mem_addr - FLASH_ORIGIN, n)
    ELSE Filled(0)

\* The assertions of FlashSector::read, in order.
FlashSector_read_ok(T, mem_addr) ==
    /\ SizeOf(T) <= FLASH_SECTOR_SIZE
    /\ mem_addr >= FLASH_ORIGIN
    /\ mem_addr <= FLASH_END_MAX - FLASH_SECTOR_SIZE
    /\ is_aligned(mem_addr, FLASH_SECTOR_SIZE)

\* FlashSector::read(mem_addr), past its assertions.
FlashSector_read(T, mem_addr) ==
    LET image == XipLoad(mem_addr, SizeOf(T))
    IN  [some |-> TRUE, T |-> T,
         mem |-> Put(FlashSector_default(T).mem, 0 .. (SizeOf(T) - 1),
                     LAMBDA o : Rd(image, o))]

\* The assertions of write without the one on alignment.
FlashSector_write_ok_unaligned(mem_addr) ==
    /\ mem_addr >= FLASH_ORIGIN
    /\ mem_addr <= FLASH_END_MAX - FLASH_SECTOR_SIZE

\* The assertions of FlashSector::write, in order.
FlashSector_write_ok(mem_addr) ==
    /\ mem_addr >= FLASH_ORIGIN
    /\ mem_addr <= FLASH_END_MAX - FLASH_SECTOR_SIZE
    /\ is_aligned(mem_addr - FLASH_ORIGIN, FLASH_SECTOR_SIZE)

\* &self.data: the first 4096 bytes of the union.
SectorData(sec) ==
    [some |-> TRUE, ptr |-> DATA_PTR, len |-> FLASH_SECTOR_SIZE,
     mem |-> Slice(sec.mem, 0, FLASH_SECTOR_SIZE)]

\* write programming the sector without erasing it.
FlashSector_write_program_only(sec, mem_addr, k) ==
    IF FlashSector_write_ok(mem_addr)
    THEN flash_range_program(mem_addr - FLASH_ORIGIN, SectorData(sec), TRUE, k)
    ELSE /\ pc' = "panic"
         /\ UNCHANGED <<hw, ret, op, ptrs, boot2, regs, data, calls, rd>>

\* FlashSector::write(&self, mem_addr): a failed assertion is fatal,
\* otherwise the sector is erased and programmed and control continues at k.
FlashSector_write(sec, mem_addr, k) ==
    IF FlashSector_write_ok(mem_addr)
    THEN flash_range_erase_and_program(mem_addr - FLASH_ORIGIN,
                                       SectorData(sec), TRUE, k)
    ELSE /\ pc' = "panic"
         /\ UNCHANGED <<hw, ret, op, ptrs, boot2, regs, data, calls, rd>>

\* FlashSector::value(): the payload bytes of the union.
FlashSector_value(sec) == Slice(sec.mem, 0, SizeOf(sec.T))

\* ------------------------------------------------------ the application
FLASH_END == FLASH_ORIGIN + 2 * 1024 * 1024
FLASH_CONF_ADDR == FLASH_END - FLASH_SECTOR_SIZE
CONF_OFFSET == FLASH_CONF_ADDR - FLASH_ORIGIN

MaxBoots == 3
MaxOps == 2

NoConf == [validity |-> 0, boot_counter |-> W(0)]
NoOrigin == [kind |-> "none", T |-> "Conf", value |-> NoConf, addr |-> 0]
NoVal == [some |-> FALSE, T |-> "Conf", value |-> NoConf]

\* The value of type T that the bytes image hold.
ValueOf(T, image) == IF T = "Conf" THEN ConfOfBytes(image) ELSE image

\* The boot's read persisting the default when the record is not valid.
M_read_writes_default ==
    /\ pc = "boot"
    /\ LET c == ConfOfBytes(FlashSector_value(
                     FlashSector_read("Conf", FLASH_CONF_ADDR)))
       IN  /\ stored' = c
           /\ conf' = Conf_valid(c)
           /\ pc' = "m_update"
           /\ flash' = IF Conf_is_valid(c) THEN flash
                       ELSE RomFlashRangeProgram(
                                RomFlashRangeErase(flash, CONF_OFFSET,
                                                   FLASH_SECTOR_SIZE),
                                CONF_OFFSET, ConfBytes(Conf_default, 0),
                                FLASH_SECTOR_SIZE)
    /\ UNCHANGED <<xip, ssi, ret, op, ptrs, boot2, regs, data, calls, rd,
                   sector, origin, val, updated_conf, boots, nops, cpu, earlier>>

\* let conf = FlashSector::<Conf>::read(FLASH_CONF_ADDR).value()
\*     .assume_init().valid();
M_read ==
    /\ pc = "boot"
    /\ IF FlashSector_read_ok("Conf", FLASH_CONF_ADDR)
       THEN LET c == ConfOfBytes(FlashSector_value(
                         FlashSector_read("Conf", FLASH_CONF_ADDR)))
            IN  /\ stored' = c
                /\ conf' = Conf_valid(c)
                /\ pc' = "m_update"
       ELSE /\ pc' = "panic"
            /\ UNCHANGED <<stored, conf>>
    /\ UNCHANGED <<hw, ret, op, ptrs, boot2, regs, data, calls, rd,
                   sector, origin, val, updated_conf, boots, nops, cpu, earlier>>

\* The update persisting the counter it read, without the + 1.
M_update_no_increment ==
    /\ pc = "m_update"
    /\ \E pad \in PadValues :
          LET new_conf == Conf_new(Conf_boot_counter(conf))
              sec == FlashSector_new("Conf", ConfBytes(new_conf, pad))
          IN  /\ FlashSector_new_ok("Conf")
              /\ sector' = sec
              /\ origin' = [kind |-> "new", T |-> "Conf", value |-> new_conf,
                            addr |-> FLASH_CONF_ADDR]
              /\ FlashSector_write(sec, FLASH_CONF_ADDR, "m_reread")
    /\ UNCHANGED <<val, stored, conf, updated_conf, boots, nops, primask, earlier>>
    /\ core1' = "rom"

\* let new_conf = Conf::new(conf.boot_counter() + 1);
\* FlashSector::new(new_conf).write(FLASH_CONF_ADDR)
\* The addition overflows at u32::MAX: a build with overflow checks panics
\* there, a build without wraps.
M_update ==
    /\ pc = "m_update"
    /\ \/ /\ Conf_boot_counter(conf) = W_MAX
          /\ pc' = "panic"
          /\ UNCHANGED <<hw, ret, op, ptrs, boot2, regs, data, calls, rd,
                         sector, origin>>
       \/ \E pad \in PadValues :
            LET new_conf == Conf_new(WAdd(Conf_boot_counter(conf), W(1)))
                sec == FlashSector_new("Conf", ConfBytes(new_conf, pad))
            IN  /\ FlashSector_new_ok("Conf")
                /\ sector' = sec
                /\ origin' = [kind |-> "new", T |-> "Conf", value |-> new_conf,
                              addr |-> FLASH_CONF_ADDR]
                /\ FlashSector_write(sec, FLASH_CONF_ADDR, "m_reread")
    /\ UNCHANGED <<val, stored, conf, updated_conf, boots, nops, primask, earlier>>
    /\ core1' = "rom"

\* The read back taking the record from memory instead of from flash.
M_reread_in_memory ==
    /\ pc = "m_reread"
    /\ IF Conf_is_valid(ConfOfBytes(FlashSector_value(
                            FlashSector_read("Conf", FLASH_CONF_ADDR))))
       THEN /\ updated_conf' = origin.value
            /\ boots' = boots + 1
            /\ pc' = "blink"
       ELSE /\ pc' = "panic"
            /\ UNCHANGED <<updated_conf, boots>>
    /\ UNCHANGED <<hw, ret, op, ptrs, boot2, regs, data, calls, rd,
                   sector, origin, val, stored, conf, nops, cpu, earlier>>

\* The read back: assert!(conf.is_valid(), ..)
M_reread ==
    /\ pc = "m_reread"
    /\ IF FlashSector_read_ok("Conf", FLASH_CONF_ADDR)
       THEN LET c == ConfOfBytes(FlashSector_value(
                         FlashSector_read("Conf", FLASH_CONF_ADDR)))
            IN  IF Conf_is_valid(c)
                THEN /\ updated_conf' = c
                     /\ boots' = boots + 1
                     /\ pc' = "blink"
                ELSE /\ pc' = "panic"
                     /\ UNCHANGED <<updated_conf, boots>>
       ELSE /\ pc' = "panic"
            /\ UNCHANGED <<updated_conf, boots>>
    /\ UNCHANGED <<hw, ret, op, ptrs, boot2, regs, data, calls, rd,
                   sector, origin, val, stored, conf, nops, cpu, earlier>>

\* loop { blink.times(updated_conf.boot_counter()); blink.pause(); }
M_blink ==
    /\ pc = "blink"
    /\ UNCHANGED vars

\* The state of the RAM and of the controller when main is entered.
FreshRam ==
    /\ ret' = "none"
    /\ op' = NoOp
    /\ ptrs' = NoPtrs
    /\ boot2' = Filled(0)
    /\ regs' = ZeroRegs
    /\ data' = NoData
    /\ calls' = <<>>
    /\ cmd' = NoCmd
    /\ out' = NoOut
    /\ result' = W(0)
    /\ sector' = NoSector
    /\ origin' = NoOrigin
    /\ val' = NoVal
    /\ stored' = NoConf
    /\ conf' = NoConf
    /\ updated_conf' = NoConf

\* The device is power cycled while it blinks or after a panic: the next
\* boot starts main again with the flash as it is.
\* Unsigned comparison of two words.
WLe(a, b) == a.hi < b.hi \/ (a.hi = b.hi /\ a.lo <= b.lo)

\* The history at the end of a boot: the counter the boot obtained from
\* read-or-default, if it got that far, is remembered when it is the largest.
NoEarlier == [some |-> FALSE, max |-> W(0), losses |-> 0]

EndBoot(e) ==
    IF conf.validity # VALIDITY_MARKER THEN e
    ELSE [e EXCEPT !.some = TRUE,
                   !.max = IF e.some /\ WLe(Conf_boot_counter(conf), e.max)
                           THEN e.max ELSE Conf_boot_counter(conf)]

PowerCycle ==
    /\ pc \in {"blink", "panic"}
    /\ boots < MaxBoots
    /\ pc' = "boot"
    /\ FreshRam
    /\ xip' = TRUE
    /\ ssi' = SsiXip(SsiSerial)
    /\ UNCHANGED <<flash, boots, nops>>
    /\ primask' = FALSE
    /\ earlier' = EndBoot(earlier)
    /\ core1' = "rom"

\* The images the configuration sector may hold when power is applied.
ConfImages ==
    { Filled(FLASH_ERASED_VALUE),
      ConfBytes(Conf_new(W(7)), 0),
      ConfBytes(Conf_new(W_MAX), 0),
      [fill |-> FLASH_ERASED_VALUE, ex |-> (0 :> 0) @@ (4 :> 9) @@ (4095 :> 0)],
      [fill |-> FLASH_ERASED_VALUE, ex |-> (0 :> 84) @@ (4 :> 1)],
      [fill |-> FLASH_ERASED_VALUE, ex |-> (0 :> 170) @@ (1 :> 85) @@ (4 :> 85)],
      [fill |-> FLASH_ERASED_VALUE, ex |-> (0 :> 85) @@ (4 :> 2) @@ (5 :> 1) @@ (9 :> 3)] }

\* A chip that holds the loader and the image img in the configuration
\* sector, erased elsewhere.
FlashWith(img) ==
    Put(Boot2Image, {CONF_OFFSET + o : o \in Marked(img, 0, FLASH_SECTOR_SIZE)},
        LAMBDA a : Rd(img, a - CONF_OFFSET))

InitCommon ==
    /\ flash \in {FlashWith(img) : img \in ConfImages}
    /\ xip = TRUE
    /\ ssi = SsiXip(SsiSerial)
    /\ ret = "none"
    /\ op = NoOp
    /\ ptrs = NoPtrs
    /\ boot2 = Filled(0)
    /\ regs = ZeroRegs
    /\ data = NoData
    /\ calls = <<>>
    /\ cmd = NoCmd
    /\ out = NoOut
    /\ result = W(0)
    /\ sector = NoSector
    /\ origin = NoOrigin
    /\ val = NoVal
    /\ stored = NoConf
    /\ conf = NoConf
    /\ updated_conf = NoConf
    /\ boots = 0
    /\ nops = 0
    /\ primask = FALSE
    /\ earlier = NoEarlier

\* Core 0 starts with its interrupts enabled; the second core waits in the
\* ROM after power on and may run code in flash after a restart by a
\* debugger.
Core1States == {"rom", "flash"}

InitBoot == InitCommon /\ pc = "boot" /\ core1 \in Core1States

NextBoot ==
    \/ M_read
    \/ M_update
    \/ W_connect \/ W_exit_xip \/ W_erase \/ W_program \/ W_flush \/ W_enter_xip
    \/ M_reread
    \/ M_blink
    \/ PowerCycle

SpecBoot == InitBoot /\ [][NextBoot]_vars

\* A silent failure of the chip's program step: bits of the marker or of
\* the counter's first byte that were to stay set come out cleared.
FaultMasks == {0, 84}

WriteFault ==
    /\ pc = "w_flush"
    /\ origin.kind = "new"
    /\ \E o \in {0, 4}, k \in FaultMasks :
          flash' = Put(flash, {CONF_OFFSET + o},
                       LAMBDA a : BitAnd(Rd(flash, a), k))
    /\ UNCHANGED <<xip, ssi, drv, rd, app>>

NextFault == NextBoot \/ WriteFault

SpecFault == InitBoot /\ [][NextFault]_vars

\* Power is lost or the chip is reset while main is in its update: before
\* the erase, between the erase and the program, or after the program.  RAM
\* is lost and the chip keeps what it held at that moment.
PowerLoss ==
    /\ pc \in {"w_connect", "w_exit_xip", "w_erase", "w_program", "w_flush",
               "w_enter_xip", "m_reread"}
    /\ origin.kind = "new"
    /\ earlier.losses < MaxLosses
    /\ pc' = "boot"
    /\ FreshRam
    /\ xip' = TRUE
    /\ ssi' = SsiXip(SsiSerial)
    /\ primask' = FALSE
    /\ core1' = "rom"
    /\ earlier' = [EndBoot(earlier) EXCEPT !.losses = earlier.losses + 1]
    /\ UNCHANGED <<flash, boots, nops>>

NextPower == NextBoot \/ PowerLoss

SpecPower == InitBoot /\ [][NextPower]_vars

\* flash_example.rs, the earlier revision of the same program: its main
\* reads, updates, reads back and blinks as boot_counter's does, and its
\* FlashSector writes itself from inside cortex_m::interrupt::free.
\* unsafe fn write_flash(&self, data): the position to return to records
\* whether interrupts were disabled before, which interrupt::free restores.
write_flash(sec, mem_addr) ==
    IF is_aligned(mem_addr - FLASH_ORIGIN, FLASH_SECTOR_SIZE)
    THEN /\ primask' = TRUE
         /\ flash_range_erase_and_program(
                mem_addr - FLASH_ORIGIN, SectorData(sec), TRUE,
                IF primask THEN "e_masked" ELSE "e_unmasked")
    ELSE /\ pc' = "panic"
         /\ UNCHANGED <<hw, ret, op, ptrs, boot2, regs, data, calls, rd,
                        primask>>

\* The core 1 reset, Conf::new(conf.boot_counter + 1) and
\* CONF_FLASH_SECTOR.write(new_conf)
E_update ==
    /\ pc = "m_update"
    /\ core1' = "rom"
    /\ \/ /\ Conf_boot_counter(conf) = W_MAX
          /\ pc' = "panic"
          /\ UNCHANGED <<hw, ret, op, ptrs, boot2, regs, data, calls, rd,
                         sector, origin, primask>>
       \/ \E pad \in PadValues :
            LET new_conf == Conf_new(WAdd(Conf_boot_counter(conf), W(1)))
                sec == FlashSector_new("Conf", ConfBytes(new_conf, pad))
            IN  /\ sector' = sec
                /\ origin' = [kind |-> "example", T |-> "Conf",
                              value |-> new_conf, addr |-> FLASH_CONF_ADDR]
                /\ write_flash(sec, FLASH_CONF_ADDR)
    /\ UNCHANGED <<val, stored, conf, updated_conf, boots, nops, earlier>>

\* The end of cortex_m::interrupt::free: interrupts are enabled again if
\* they were enabled before.
E_restore ==
    /\ pc \in {"e_masked", "e_unmasked"}
    /\ primask' = (pc = "e_masked")
    /\ pc' = "m_reread"
    /\ UNCHANGED <<hw, ret, op, ptrs, boot2, regs, data, calls, rd,
                   sector, origin, val, stored, conf, updated_conf, boots,
                   nops, core1, earlier>>

NextExample ==
    \/ M_read
    \/ E_update
    \/ W_connect \/ W_exit_xip \/ W_erase \/ W_program \/ W_flush \/ W_enter_xip
    \/ E_restore
    \/ M_reread
    \/ M_blink
    \/ PowerCycle

SpecExample == InitBoot /\ [][NextExample]_vars

\* The device as it leaves the factory: the configuration sector erased.
InitErased == InitBoot /\ flash = FlashWith(Filled(FLASH_ERASED_VALUE))

SpecErased == InitErased /\ [][NextBoot]_vars

\* --------------------------------------------- a caller of the library
\* The arguments the operations are called with.
RawAddrs == {CONF_OFFSET, CONF_OFFSET + FLASH_PAGE_SIZE, CONF_OFFSET + 1}
RawLens == {FLASH_SECTOR_SIZE, FLASH_PAGE_SIZE}
DataInputs ==
    { [some |-> TRUE, ptr |-> DATA_PTR, len |-> FLASH_SECTOR_SIZE,
       mem |-> [fill |-> FLASH_ERASED_VALUE,
                ex |-> (0 :> 85) @@ (4 :> 3) @@ (4095 :> 0)]],
      [some |-> TRUE, ptr |-> DATA_PTR, len |-> FLASH_PAGE_SIZE,
       mem |-> [fill |-> FLASH_ERASED_VALUE, ex |-> (0 :> 1) @@ (255 :> 2)]],
      [some |-> TRUE, ptr |-> DATA_PTR, len |-> 100,
       mem |-> [fill |-> FLASH_ERASED_VALUE, ex |-> (0 :> 66)]] }
OutLens == {8, 0}
Types == {"Conf", "Block", "Big"}
Counters == {W(0), W(1), W_MAX}
OvAddrs == {FLASH_CONF_ADDR, FLASH_CONF_ADDR + FLASH_PAGE_SIZE,
            FLASH_ORIGIN - FLASH_SECTOR_SIZE, FLASH_END_MAX}

\* The values of type T the overlay is constructed with, each with the
\* bytes that hold it.
ValuesOf(T) ==
    IF T = "Conf"
    THEN {[value |-> Conf_new(n), image |-> ConfBytes(Conf_new(n), pad)] :
             n \in Counters, pad \in PadValues}
    ELSE IF T = "Block"
    THEN {[value |-> m, image |-> m] :
             m \in {[fill |-> FLASH_ERASED_VALUE, ex |-> (0 :> 1) @@ (4095 :> 2)]}}
    ELSE {[value |-> m, image |-> m] :
             m \in {[fill |-> FLASH_ERASED_VALUE, ex |-> (0 :> 1) @@ (4096 :> 3)]}}

\* Every caller below is enabled while the program is idle and has made
\* fewer than MaxOps calls.
CanCall == pc = "idle" /\ nops < MaxOps

Call_flash_range_erase ==
    /\ CanCall
    /\ \E addr \in RawAddrs, len \in RawLens, b \in BOOLEAN :
          flash_range_erase(addr, len, b, "done")
    /\ nops' = nops + 1
    /\ UNCHANGED <<sector, origin, val, stored, conf, updated_conf, boots, cpu, earlier>>

Call_flash_range_erase_and_program ==
    /\ CanCall
    /\ \E addr \in RawAddrs, d \in DataInputs, b \in BOOLEAN :
          flash_range_erase_and_program(addr, d, b, "done")
    /\ nops' = nops + 1
    /\ UNCHANGED <<sector, origin, val, stored, conf, updated_conf, boots, cpu, earlier>>

Call_flash_range_program ==
    /\ CanCall
    /\ \E addr \in RawAddrs, d \in DataInputs, b \in BOOLEAN :
          flash_range_program(addr, d, b, "done")
    /\ nops' = nops + 1
    /\ UNCHANGED <<sector, origin, val, stored, conf, updated_conf, boots, cpu, earlier>>

Call_flash_unique_id ==
    /\ CanCall
    /\ \E n \in OutLens, b \in BOOLEAN : flash_unique_id(n, b, "done")
    /\ nops' = nops + 1
    /\ UNCHANGED <<sector, origin, val, stored, conf, updated_conf, boots, cpu, earlier>>

Call_flash_jedec_id ==
    /\ CanCall
    /\ \E b \in BOOLEAN : flash_jedec_id(b, "done")
    /\ nops' = nops + 1
    /\ UNCHANGED <<sector, origin, val, stored, conf, updated_conf, boots, cpu, earlier>>

Halt ==
    /\ pc' = "panic"
    /\ UNCHANGED <<hw, ret, op, ptrs, boot2, regs, data, calls, rd>>

\* FlashSector::new(value).write(mem_addr)
Call_new_write ==
    /\ CanCall
    /\ \E T \in Types, mem_addr \in OvAddrs : \E v \in ValuesOf(T) :
          /\ origin' = [kind |-> "new", T |-> T, value |-> v.value,
                        addr |-> mem_addr]
          /\ IF FlashSector_new_ok(T)
             THEN /\ sector' = FlashSector_new(T, v.image)
                  /\ FlashSector_write(FlashSector_new(T, v.image), mem_addr,
                                       "ov_done")
             ELSE Halt /\ UNCHANGED sector
    /\ nops' = nops + 1
    /\ UNCHANGED <<val, stored, conf, updated_conf, boots, cpu, earlier>>

\* FlashSector::<T>::default().write(mem_addr)
Call_default_write ==
    /\ CanCall
    /\ \E T \in Types, mem_addr \in OvAddrs :
          /\ origin' = [kind |-> "default", T |-> T, value |-> NoConf,
                        addr |-> mem_addr]
          /\ sector' = FlashSector_default(T)
          /\ FlashSector_write(FlashSector_default(T), mem_addr, "ov_done")
    /\ nops' = nops + 1
    /\ UNCHANGED <<val, stored, conf, updated_conf, boots, cpu, earlier>>

\* let s = FlashSector::<T>::read(mem_addr); let v = s.value();
\* s.write(mem_addr)
Call_read_write ==
    /\ CanCall
    /\ \E T \in Types, mem_addr \in OvAddrs :
          /\ origin' = [kind |-> "read", T |-> T, value |-> NoConf,
                        addr |-> mem_addr]
          /\ IF FlashSector_read_ok(T, mem_addr)
             THEN LET sec == FlashSector_read(T, mem_addr)
                  IN  /\ sector' = sec
                      /\ val' = [some |-> TRUE, T |-> T,
                                 value |-> ValueOf(T, FlashSector_value(sec))]
                      /\ FlashSector_write(sec, mem_addr, "ov_done")
             ELSE Halt /\ UNCHANGED <<sector, val>>
    /\ nops' = nops + 1
    /\ UNCHANGED <<stored, conf, updated_conf, boots, cpu, earlier>>

\* let v = FlashSector::new(value).value();
Call_new_value ==
    /\ CanCall
    /\ \E T \in Types : \E v \in ValuesOf(T) :
          /\ origin' = [kind |-> "value", T |-> T, value |-> v.value,
                        addr |-> 0]
          /\ IF FlashSector_new_ok(T)
             THEN LET sec == FlashSector_new(T, v.image)
                  IN  /\ sector' = sec
                      /\ val' = [some |-> TRUE, T |-> T,
                                 value |-> ValueOf(T, FlashSector_value(sec))]
                      /\ pc' = "ov_done"
                      /\ UNCHANGED <<hw, ret, op, ptrs, boot2, regs, data,
                                     calls, rd>>
             ELSE Halt /\ UNCHANGED <<sector, val>>
    /\ nops' = nops + 1
    /\ UNCHANGED <<stored, conf, updated_conf, boots, cpu, earlier>>

\* The operation has returned: its locals go out of scope.
Finish ==
    /\ pc \in {"done", "ov_done"}
    /\ pc' = "idle"
    /\ ret' = "none"
    /\ op' = NoOp
    /\ ptrs' = NoPtrs
    /\ boot2' = Filled(0)
    /\ regs' = ZeroRegs
    /\ data' = NoData
    /\ calls' = <<>>
    /\ cmd' = NoCmd
    /\ out' = NoOut
    /\ result' = W(0)
    /\ sector' = NoSector
    /\ origin' = NoOrigin
    /\ val' = NoVal
    /\ UNCHANGED <<hw, stored, conf, updated_conf, boots, nops, cpu, earlier>>

\* A fatal assertion halts the program until the device is reset.
Reset ==
    /\ pc = "panic"
    /\ pc' = "idle"
    /\ FreshRam
    /\ xip' = TRUE
    /\ ssi' = SsiXip(SsiSerial)
    /\ UNCHANGED <<flash, boots, nops>>
    /\ primask' = FALSE
    /\ UNCHANGED earlier
    /\ core1' = "rom"

Init == InitCommon /\ pc = "idle" /\ core1 = "rom"

\* read_flash as a caller inside the crate may use it: any command bytes,
\* dummy count and output slice.  The slice lies inside a larger buffer, a
\* byte of which precedes and a byte of which follows it.
CmdInputs == {<<>>, <<159>>, <<75>>}
DummyLens == {0, 1, 4}
ReadOutLens == {0, 1, 3}

Call_read_flash ==
    /\ CanCall
    /\ \E c \in CmdInputs, d \in DummyLens, n \in ReadOutLens, b \in BOOLEAN :
          /\ ResolveFor(FALSE, FALSE, b)
          /\ read_flash(c, d, [base |-> OUT_PTR, size |-> n + 2,
                               ptr |-> OUT_PTR + 1, len |-> n,
                               mem |-> Filled(0), oob |-> FALSE])
          /\ op' = [name |-> "read_flash", addr |-> 0, len |-> n,
                    use_boot2 |-> b]
    /\ ret' = "done"
    /\ nops' = nops + 1
    /\ UNCHANGED <<hw, sector, origin, val, stored, conf, updated_conf, boots, cpu, earlier>>

InitRead == Init /\ flash = FlashWith(Filled(FLASH_ERASED_VALUE))

NextRead ==
    \/ Call_read_flash
    \/ R_connect \/ R_exit_xip \/ R_disable \/ R_ctrlr0 \/ R_ctrlr1
    \/ R_enable \/ R_cmd \/ R_dummy_poll \/ R_dummy_read \/ R_data_init
    \/ R_data_poll \/ R_data_read \/ R_disable2 \/ R_ctrlr1_reset
    \/ R_enter_xip
    \/ SsiShift
    \/ Finish

SpecRead == InitRead /\ [][NextRead]_vars

Next ==
    \/ Call_flash_range_erase
    \/ Call_flash_range_erase_and_program
    \/ Call_flash_range_program
    \/ Call_flash_unique_id
    \/ Call_flash_jedec_id
    \/ Call_new_write
    \/ Call_default_write
    \/ Call_read_write
    \/ Call_new_value
    \/ W_connect \/ W_exit_xip \/ W_erase \/ W_program \/ W_flush \/ W_enter_xip
    \/ R_connect \/ R_exit_xip \/ R_disable \/ R_ctrlr0 \/ R_ctrlr1
    \/ R_enable \/ R_cmd \/ R_dummy_poll \/ R_dummy_read \/ R_data_init
    \/ R_data_poll \/ R_data_read \/ R_disable2 \/ R_ctrlr1_reset
    \/ R_enter_xip
    \/ SsiShift
    \/ Finish
    \/ Reset

Spec == Init /\ [][Next]_vars

\* The processor keeps executing, every ROM routine returns, and the
\* controller keeps clocking while it has frames left to receive.
SpecLive == Spec /\ WF_vars(Next) /\ WF_vars(SsiShift)

\* =========================================================== properties
WritePcs == {"w_connect", "w_exit_xip", "w_erase", "w_program", "w_flush",
             "w_enter_xip"}
BusPcs == {"r_disable", "r_ctrlr0", "r_ctrlr1", "r_enable", "r_cmd",
           "r_dummy_poll", "r_dummy_read", "r_data_init", "r_data_poll",
           "r_data_read", "r_disable2", "r_ctrlr1_reset"}
ReadPcs == {"r_connect", "r_exit_xip", "r_enter_xip"} \cup BusPcs
Returned == {"done", "ov_done", "m_reread"}
WriteOps == {"flash_range_erase", "flash_range_program",
             "flash_range_erase_and_program"}
ReadOps == {"flash_unique_id", "flash_jedec_id"}

\* The routines invoked so far, without their arguments.
Fns == [i \in 1 .. Len(calls) |-> calls[i].fn]

Opt(present, f) == IF present THEN <<f>> ELSE <<>>

\* The routines write_flash_inner has invoked when it stands at each of its
\* positions, and when it has returned.
WriteOrder(at) ==
    LET c == <<rom_connect_internal_flash>>
        x == c \o <<rom_flash_exit_xip>>
        e == x \o Opt(ptrs.flash_range_erase # NULL, rom_flash_range_erase)
        p == e \o Opt(ptrs.flash_range_program # NULL, rom_flash_range_program)
        f == p \o <<rom_flash_flush_cache>>
    IN  CASE at = "w_connect"   -> <<>>
          [] at = "w_exit_xip"  -> c
          [] at = "w_erase"     -> x
          [] at = "w_program"   -> e
          [] at = "w_flush"     -> p
          [] at = "w_enter_xip" -> f
          [] OTHER              -> f \o <<Routine(W(ptrs.flash_enter_cmd_xip))>>

\* C1: at every position of write_flash_inner, and when it has returned,
\* the routines invoked so far are connect, exit-XIP, erase (if its entry
\* is present), program (if its entry is present), flush, enter-XIP, in
\* this order and each once.
C1_WriteOrder ==
    (op.name \in WriteOps /\ pc \in WritePcs \cup Returned)
        => Fns = WriteOrder(pc)

C1_Witness ==
    /\ pc = "done"
    /\ op.name = "flash_range_erase_and_program"
    /\ Fns = <<rom_connect_internal_flash, rom_flash_exit_xip,
               rom_flash_range_erase, rom_flash_range_program,
               rom_flash_flush_cache, rom_flash_enter_cmd_xip>>

Restorers == {rom_flash_enter_cmd_xip, boot2_start}

\* C2: when a public operation has returned the chip is memory mapped
\* again, the last routine invoked is the enter-XIP entry and exit-XIP was
\* invoked exactly once; every erase and program call comes after exit-XIP
\* and before enter-XIP, and the bus controller is driven only between the
\* two.
C2_BackInXip ==
    /\ (op.name # "none" /\ pc \in Returned) =>
          /\ xip
          /\ Len(calls) > 0
          /\ calls[Len(calls)].fn = Routine(W(ptrs.flash_enter_cmd_xip))
          /\ calls[Len(calls)].fn \in Restorers
          /\ Cardinality({i \in DOMAIN calls : calls[i].fn = rom_flash_exit_xip}) = 1
          /\ Cardinality({i \in DOMAIN calls : calls[i].fn \in Restorers}) = 1
    /\ \A i \in DOMAIN calls :
          calls[i].fn \in {rom_flash_range_erase, rom_flash_range_program} =>
             /\ \E j \in 1 .. (i - 1) : calls[j].fn = rom_flash_exit_xip
             /\ \A j \in 1 .. i : calls[j].fn \notin Restorers
    /\ pc \in BusPcs \cup {"w_erase", "w_program", "w_flush"} =>
          /\ ~xip
          /\ \E j \in DOMAIN calls : calls[j].fn = rom_flash_exit_xip
          /\ \A j \in DOMAIN calls : calls[j].fn \notin Restorers
    /\ pc = "idle" => xip

C2_Witness ==
    /\ pc = "done"
    /\ op.name = "flash_jedec_id"
    /\ op.use_boot2
    /\ xip
    /\ calls[Len(calls)].fn = boot2_start

Invoked(f) == \E i \in DOMAIN calls : calls[i].fn = f

\* C3: an operation that has returned has invoked the erase routine iff it
\* is flash_range_erase or flash_range_erase_and_program, and the program
\* routine iff it is flash_range_program or flash_range_erase_and_program,
\* which is iff a data buffer was supplied; the program routine is never
\* handed a null data pointer; flash_unique_id and flash_jedec_id leave the
\* flash contents as they are.
C3_State ==
    /\ (op.name # "none" /\ pc \in Returned) =>
          /\ Invoked(rom_flash_range_erase)
                <=> op.name \in {"flash_range_erase",
                                 "flash_range_erase_and_program"}
          /\ Invoked(rom_flash_range_program)
                <=> op.name \in {"flash_range_program",
                                 "flash_range_erase_and_program"}
          /\ Invoked(rom_flash_range_program) <=> data.some
    /\ \A i \in DOMAIN calls :
          calls[i].fn = rom_flash_range_program => calls[i].args[2] # W(NULL)
    /\ op.name \in ReadOps =>
          ~Invoked(rom_flash_range_erase) /\ ~Invoked(rom_flash_range_program)

C3_Selection == []C3_State /\ [][op.name \in ReadOps => flash' = flash]_vars

C3_Witness ==
    /\ pc = "done"
    /\ op.name = "flash_range_program"
    /\ Invoked(rom_flash_range_program)
    /\ ~Invoked(rom_flash_range_erase)

\* The unit an operation's address and length are to be multiples of.
UnitOf(name) ==
    IF name = "flash_range_program" THEN FLASH_PAGE_SIZE ELSE FLASH_SECTOR_SIZE

RawMisaligned ==
    /\ op.name \in WriteOps
    /\ origin.kind = "none"
    /\ \/ op.addr % UnitOf(op.name) # 0
       \/ op.len % UnitOf(op.name) # 0

OverlayKinds == {"new", "default", "read"}

OverlayMisaligned ==
    /\ origin.kind \in OverlayKinds
    /\ origin.addr % FLASH_SECTOR_SIZE # 0

\* C4 as stated: a misaligned address or length, of a raw operation or of
\* an overlay read or write, is rejected before any routine is invoked.
C4_AllRejected ==
    (RawMisaligned \/ OverlayMisaligned) => calls = <<>>

\* C4: an overlay read or write at an address that is not a multiple of
\* 4096 ends in the fatal assertion with no routine invoked, no operation
\* entered and the chip still memory mapped; the raw operations check
\* nothing.
C4_OverlayRejected ==
    OverlayMisaligned =>
        /\ pc = "panic"
        /\ calls = <<>>
        /\ op = NoOp
        /\ xip

C4_Witness ==
    /\ OverlayMisaligned
    /\ origin.kind = "new"
    /\ origin.addr = FLASH_CONF_ADDR + FLASH_PAGE_SIZE
    /\ pc = "panic"

OverlayOutOfBounds ==
    /\ origin.kind \in OverlayKinds \cup {"value"}
    /\ \/ SizeOf(origin.T) > FLASH_SECTOR_SIZE
       \/ /\ origin.kind \in OverlayKinds
          /\ \/ origin.addr < FLASH_ORIGIN
             \/ origin.addr > FLASH_END_MAX - FLASH_SECTOR_SIZE

\* C5 as stated: an overlay whose payload is larger than a sector, or that
\* is placed outside the flash window, ends in the fatal assertion before
\* any routine is invoked, on every path.
C5_AllRejected ==
    OverlayOutOfBounds => calls = <<>>

\* The bytes a and b hold the same n bytes.
SameBytes(a, b, n) ==
    \A o \in {0, n - 1} \cup Marked(a, 0, n) \cup Marked(b, 0, n) :
        Rd(a, o) = Rd(b, o)

SameValue(T, a, b) == IF T = "Conf" THEN a = b ELSE SameBytes(a, b, SizeOf(T))

\* C6: the value taken out of FlashSector::new(v) is v, and every byte of
\* the overlay past the payload holds the erased value 0xFF.
C6_NewValue ==
    (origin.kind = "value" /\ pc = "ov_done") =>
        /\ val.some
        /\ SameValue(origin.T, val.value, origin.value)
        /\ \A o \in SizeOf(origin.T) .. (FLASH_SECTOR_SIZE - 1) :
              Rd(sector.mem, o) = 255

C6_Witness ==
    /\ origin.kind = "value"
    /\ pc = "ov_done"
    /\ origin.T = "Conf"
    /\ val.value = [validity |-> 85, boot_counter |-> W_MAX]
    /\ Rd(sector.mem, 1) = 170
    /\ Rd(sector.mem, CONF_SIZE) = 255

\* The record a read of the overlay at mem_addr gives.
ReadBack(mem_addr) ==
    ConfOfBytes(FlashSector_value(FlashSector_read("Conf", mem_addr)))

\* C8: when FlashSector::new(Conf::new(N)).write(addr) has returned,
\* whatever the sector held before, a read at addr passes its assertions
\* and gives a record with the marker 0x55 and the counter N.
C8_WriteThenRead ==
    (origin.kind = "new" /\ origin.T = "Conf" /\ pc \in Returned) =>
        /\ op.name = "flash_range_erase_and_program"
        /\ FlashSector_read_ok("Conf", origin.addr)
        /\ ReadBack(origin.addr).validity = 85
        /\ ReadBack(origin.addr).boot_counter = origin.value.boot_counter

C8_Witness ==
    /\ origin.kind = "new"
    /\ origin.T = "Conf"
    /\ pc = "ov_done"
    /\ nops = 2
    /\ origin.value.boot_counter = W_MAX
    /\ ReadBack(origin.addr) = [validity |-> 85, boot_counter |-> W_MAX]

\* The record the chip holds in the configuration sector.
StoredRecord == ConfOfBytes(Slice(flash, CONF_OFFSET, CONF_SIZE))

SectorErased ==
    \A o \in {0, FLASH_SECTOR_SIZE - 1}
             \cup Marked(Slice(flash, CONF_OFFSET, FLASH_SECTOR_SIZE), 0,
                         FLASH_SECTOR_SIZE) :
        Rd(flash, CONF_OFFSET + o) = 255

\* C7: after the boot's read, the record taken from the sector is used as
\* it is iff its marker is 0x55, and {0x55, 0} is used in its place
\* otherwise; a sector of 0xFF bytes gives a record that is not valid.
C7_ValidOrDefault ==
    pc = "m_update" =>
        /\ stored = StoredRecord
        /\ stored.validity = 85 => conf = stored
        /\ stored.validity # 85 =>
              conf = [validity |-> 85, boot_counter |-> [hi |-> 0, lo |-> 0]]
        /\ Conf_is_valid(stored) <=> stored.validity = 85
        /\ SectorErased => stored.validity = 255 /\ ~Conf_is_valid(stored)
        /\ LET d == ConfOfBytes(FlashSector_value(FlashSector_default("Conf")))
           IN  /\ ~Conf_is_valid(d)
               /\ Conf_valid(d) = [validity |-> 85,
                                   boot_counter |-> [hi |-> 0, lo |-> 0]]

C7_Witness ==
    /\ pc = "m_update"
    /\ SectorErased
    /\ stored.validity = 255
    /\ conf = [validity |-> 85, boot_counter |-> [hi |-> 0, lo |-> 0]]

\* C9: on a device whose configuration sector starts erased, the record in
\* the sector after M completed boots is valid with the counter M, and the
\* first boot reads an invalid record, uses the counter 0, writes {0x55, 1}
\* and reads 1 back.
C9_CountsBoots ==
    /\ pc \notin WritePcs =>
          IF boots = 0 /\ pc # "m_reread"
          THEN SectorErased
          ELSE LET m == IF pc = "m_reread" THEN boots + 1 ELSE boots
               IN  StoredRecord = [validity |-> 85, boot_counter |-> W(m)]
    /\ pc = "blink" => updated_conf = [validity |-> 85, boot_counter |-> W(boots)]
    /\ (pc = "m_update" /\ boots = 0) =>
          /\ stored.validity # 85
          /\ conf = [validity |-> 85, boot_counter |-> W(0)]
    /\ (pc \in WritePcs /\ boots = 0) =>
          /\ origin.value = [validity |-> 85, boot_counter |-> W(1)]
          /\ Rd(data.mem, 0) = 85 /\ Rd(data.mem, 4) = 1

C9_Witness ==
    /\ pc = "blink"
    /\ boots = 3
    /\ updated_conf = [validity |-> 85, boot_counter |-> W(3)]
    /\ StoredRecord = [validity |-> 85, boot_counter |-> W(3)]

\* C10: every sector image handed to the write carries the marker 0x55 in
\* its first byte, and once a boot has completed its update the record in
\* the sector is valid in every state in which no write is in progress.
C10_StaysValid ==
    /\ pc \in WritePcs => data.some /\ Rd(data.mem, 0) = 85
    /\ (boots >= 1 /\ pc \notin WritePcs) => StoredRecord.validity = 85

C10_Witness ==
    /\ boots >= 1
    /\ pc = "w_program"
    /\ StoredRecord.validity = 255
    /\ Rd(data.mem, 0) = 85

\* C11: in a boot cycle the flash contents change only in the erase and
\* program steps of the one update write; the boot's read changes nothing,
\* and when the record read is not valid the default {0x55, 0} is in use in
\* memory while the sector still holds what it held.
C11_State ==
    /\ pc = "m_update" =>
          /\ StoredRecord = stored
          /\ stored.validity # 85 =>
                /\ conf = [validity |-> 85, boot_counter |-> W(0)]
                /\ StoredRecord.validity # 85
    /\ pc = "m_reread" =>
          /\ Cardinality({i \in DOMAIN calls :
                             calls[i].fn = rom_flash_range_erase}) = 1
          /\ Cardinality({i \in DOMAIN calls :
                             calls[i].fn = rom_flash_range_program}) = 1

C11_ReadLeavesFlash ==
    []C11_State /\ [][pc \notin {"w_erase", "w_program"} => flash' = flash]_vars

C11_Witness ==
    /\ pc = "m_update"
    /\ stored.validity = 84
    /\ conf = [validity |-> 85, boot_counter |-> W(0)]
    /\ StoredRecord.validity = 84

\* C12: the update hands {0x55, counter + 1} to the write and then reads
\* the sector again; a record read back with another marker ends the
\* program in the fatal assertion, with no further change of the flash and
\* without the blink loop, and a record read back with the marker is the
\* one the blink loop uses, whatever was in memory.
C12_State ==
    /\ (pc \in WritePcs /\ conf.boot_counter # W_MAX) =>
          /\ origin.value = [validity |-> 85,
                             boot_counter |-> WAdd(conf.boot_counter, W(1))]
          /\ ConfOfBytes(data.mem) = origin.value
    /\ pc = "blink" =>
          /\ updated_conf = StoredRecord
          /\ updated_conf.validity = 85

C12_Step ==
    /\ pc = "m_reread" =>
          /\ flash' = flash
          /\ pc' = IF StoredRecord.validity = 85 THEN "blink" ELSE "panic"
    /\ pc = "panic" =>
          /\ flash' = flash
          /\ pc' \in {"panic", "boot"}

C12_ReadBack == []C12_State /\ [][C12_Step]_vars

C12_Witness ==
    /\ pc = "panic"
    /\ origin.kind = "new"
    /\ origin.value.validity = 85
    /\ StoredRecord.validity # 85
    /\ Invoked(rom_flash_range_program)

OverlayWrite == origin.kind \in OverlayKinds /\ op.name # "none"

InSector(o) == o >= op.addr /\ o < op.addr + FLASH_SECTOR_SIZE

\* C13: a FlashSector::write that has returned has invoked the erase and
\* the program routine once each, at the flash offset mem_addr -
\* FLASH_ORIGIN and with a length of 4096; the 4096 bytes of that sector
\* are then the overlay's bytes, and no step of the write changes a byte
\* outside the sector.
C13_State ==
    (OverlayWrite /\ pc \in Returned) =>
        /\ op.name = "flash_range_erase_and_program"
        /\ op.addr = origin.addr - 268435456
        /\ op.len = 4096
        /\ \E i, j \in DOMAIN calls :
              /\ calls[i] = [fn |-> rom_flash_range_erase,
                             args |-> <<W(op.addr), W(4096),
                                        [hi |-> 32768, lo |-> 0], W(0)>>]
              /\ calls[j] = [fn |-> rom_flash_range_program,
                             args |-> <<W(op.addr), W(DATA_PTR), W(4096)>>]
              /\ \A n \in DOMAIN calls :
                    calls[n].fn \in {rom_flash_range_erase,
                                     rom_flash_range_program} => n \in {i, j}
        /\ SameBytes(Slice(flash, op.addr, 4096), sector.mem, 4096)

C13_Frame ==
    (OverlayWrite /\ pc \in WritePcs) =>
        /\ flash'.fill = flash.fill
        /\ \A o \in DOMAIN flash.ex \cup DOMAIN flash'.ex :
              ~InSector(o) => Rd(flash', o) = Rd(flash, o)

C13_WholeSector == []C13_State /\ [][C13_Frame]_vars

C13_Witness ==
    /\ OverlayWrite
    /\ pc = "ov_done"
    /\ origin.T = "Block"
    /\ nops = 2
    /\ Rd(flash, op.addr) = 1
    /\ Rd(flash, op.addr + 4) = 255
    /\ Rd(flash, op.addr + 4095) = 2
    /\ Rd(flash, 1) = 181

\* The positions of read_flash_inner from the first wait for a received
\* byte to the second disabling of the controller.
TransferPcs == {"r_dummy_poll", "r_dummy_read", "r_data_init", "r_data_poll",
                "r_data_read", "r_disable2"}

\* C14: flash_jedec_id sends the one byte 0x9F, discards nothing, takes
\* three bytes b0, b1, b2 and returns b0 * 65536 + b1 * 256 + b2, whose top
\* byte is zero; flash_unique_id sends the one byte 0x4B, discards four
\* bytes and takes out.len() bytes.
C14_Identification ==
    /\ op.name = "flash_jedec_id" =>
          /\ cmd.bytes = <<159>> /\ cmd.cmd_addr_len = W(1)
          /\ cmd.dummy_len = W(0)
          /\ cmd.data_len = W(3)
          /\ pc \in TransferPcs => ssi.tx = <<159>> /\ ssi.ctrlr1 = W(2)
          /\ pc \in Returned =>
                /\ result.hi < 256
                /\ Rd(out.mem, 0) = 0
                /\ \A k \in 1 .. 3 : Rd(out.mem, k) = CHIP_JEDEC[k]
                /\ result = [hi |-> Rd(out.mem, 1),
                             lo |-> Rd(out.mem, 2) * 256 + Rd(out.mem, 3)]
                /\ result = [hi |-> 239, lo |-> 28693]
    /\ op.name = "flash_unique_id" =>
          /\ cmd.bytes = <<75>> /\ cmd.cmd_addr_len = W(1)
          /\ cmd.dummy_len = W(4)
          /\ cmd.data_len = W(op.len) /\ out.len = op.len
          /\ pc \in TransferPcs =>
                ssi.tx = <<75>> /\ ssi.ctrlr1 = W(4 + op.len - 1)
          /\ pc \in Returned =>
                \A k \in 1 .. op.len : Rd(out.mem, k - 1) = CHIP_UNIQUE_ID[k]

C14_Witness ==
    /\ op.name = "flash_jedec_id"
    /\ pc = "done"
    /\ result = [hi |-> 239, lo |-> 28693]
    /\ ~out.oob

\* The lengths of the command in hand, and the received bytes taken out of
\* the data register so far.
CmdLen == Len(cmd.bytes)
DummyLen == cmd.dummy_len.lo
DataLen == cmd.data_len.lo
Popped == ssi.got - Len(ssi.rx)
Arrived(k) == ChipResponse(cmd.bytes, DummyLen + k)

\* What C15 says of a command, at every position of read_flash_inner.
ReadDiscipline ==
    /\ pc \in {"r_cmd"} \cup TransferPcs =>
          /\ Len(ssi.tx) <= CmdLen
          /\ ssi.tx = SubSeq(cmd.bytes, 1, Len(ssi.tx))
          /\ DummyLen + DataLen >= 1
          /\ ssi.ctrlr1 = W(DummyLen + DataLen - 1)
    /\ pc \in TransferPcs => ssi.tx = cmd.bytes
    /\ pc \in {"r_dummy_read", "r_data_read"} =>
          /\ ssi.rx # <<>>
          /\ BitAnd(regs.r3.lo, SR_RFNE) # 0
    /\ pc \in {"r_dummy_poll", "r_dummy_read"} => Popped < DummyLen
    /\ pc = "r_data_init" => Popped = DummyLen
    /\ pc \in {"r_data_poll", "r_data_read"} =>
          /\ Popped >= DummyLen /\ Popped <= DummyLen + DataLen
          /\ \A k \in 0 .. (Popped - DummyLen - 1) :
                Rd(out.mem, 1 + k) = Arrived(k)
    /\ pc = "r_disable2" => Popped = DummyLen + DataLen
    /\ pc \in {"r_disable2", "r_ctrlr1_reset", "r_enter_xip", "done"} =>
          \A k \in 0 .. (DataLen - 1) : Rd(out.mem, 1 + k) = Arrived(k)
    /\ ~out.oob
    /\ Rd(out.mem, 0) = 0
    /\ Rd(out.mem, DataLen + 1) = 0

C15_NonEmptyCommand ==
    (op.name = "read_flash" /\ CmdLen >= 1 /\ DataLen >= 1) => ReadDiscipline

C15_Witness ==
    /\ op.name = "read_flash"
    /\ pc = "done"
    /\ cmd.bytes = <<75>>
    /\ DummyLen = 4
    /\ DataLen = 3
    /\ Rd(out.mem, 1) = 230 /\ Rd(out.mem, 2) = 98 /\ Rd(out.mem, 3) = 92
    /\ Rd(out.mem, 0) = 0 /\ Rd(out.mem, 4) = 0

\* The positions of read_flash_inner between its two stores to SSIENR.
EnabledPcs == {"r_cmd", "r_dummy_poll", "r_dummy_read", "r_data_init",
               "r_data_poll", "r_data_read", "r_disable2"}
ConfigPcs == {"r_ctrlr0", "r_ctrlr1", "r_enable"}

C16_State ==
    /\ pc \in ConfigPcs => ssi.enr = 0
    /\ pc \in {"r_ctrlr1", "r_enable"} =>
          BitAnd(ssi.ctrlr0.lo, TMOD_EEPROM) = TMOD_EEPROM
    /\ pc = "r_enable" =>
          ssi.ctrlr1 = WSub(WAdd(cmd.dummy_len, cmd.data_len), W(1))
    /\ pc \in EnabledPcs => ssi.enr = 1
    /\ pc = "r_ctrlr1_reset" => ssi.enr = 0
    /\ pc = "r_enter_xip" => ssi.enr = 0 /\ ssi.ctrlr1 = W(0)

C16_Step ==
    /\ (pc \in BusPcs /\ (ssi'.ctrlr0 # ssi.ctrlr0 \/ ssi'.ctrlr1 # ssi.ctrlr1))
          => ssi.enr = 0 /\ ssi'.enr = 0
    /\ (pc \in BusPcs /\ ssi'.enr # ssi.enr) =>
          pc \in {"r_disable", "r_enable", "r_disable2"}
    /\ (pc = "r_enter_xip" /\ pc' # pc) =>
          /\ Len(calls') = Len(calls) + 1
          /\ calls'[Len(calls')].fn \in Restorers

\* C16: read_flash_inner disables the controller, writes CTRLR0 and CTRLR1,
\* enables it, runs the transfer, disables it, writes zero to CTRLR1 and
\* then calls the enter-XIP routine; CTRLR0 and CTRLR1 are written only
\* while the controller is disabled, and when the enter-XIP routine is
\* called the controller is disabled and CTRLR1 holds zero.
C16_RegisterDiscipline == []C16_State /\ [][C16_Step]_vars

C16_Witness ==
    /\ pc = "r_enter_xip"
    /\ op.name = "flash_unique_id"
    /\ cmd.dummy_len = W(4)
    /\ ssi.enr = 0
    /\ ssi.ctrlr1 = W(0)
    /\ Rd(out.mem, 1) # 0

\* The flags each public operation passes to the resolver.
ErasingOps == {"flash_range_erase", "flash_range_erase_and_program"}
ProgrammingOps == {"flash_range_erase_and_program", "flash_range_program"}

SlotsFor(t, erase, write) ==
    /\ t.connect_internal_flash = rom_connect_internal_flash
    /\ t.flash_exit_xip = rom_flash_exit_xip
    /\ t.flash_flush_cache = rom_flash_flush_cache
    /\ t.flash_enter_cmd_xip # NULL
    /\ (t.flash_range_erase # NULL) <=> erase
    /\ erase => t.flash_range_erase = rom_flash_range_erase
    /\ (t.flash_range_program # NULL) <=> write
    /\ write => t.flash_range_program = rom_flash_range_program

\* C17: the table the resolver builds always holds the connect, exit-XIP,
\* cache-flush and enter-XIP routines, holds the erase routine exactly when
\* the erase flag is set and the program routine exactly when the program
\* flag is set, for all four flag combinations with and without a snapshot;
\* the table an operation works with is the one for its own flags,
\* whatever operation ran before it.
C17_ResolvedTable ==
    /\ \A e \in BOOLEAN, w \in BOOLEAN :
          /\ SlotsFor(flash_function_pointers(e, w), e, w)
          /\ SlotsFor(flash_function_pointers_with_boot2(e, w), e, w)
    /\ (op.name # "none" /\ pc \in WritePcs \cup ReadPcs) =>
          SlotsFor(ptrs, op.name \in ErasingOps, op.name \in ProgrammingOps)

C17_Witness ==
    /\ nops = 2
    /\ op.name = "flash_range_program"
    /\ ~op.use_boot2
    /\ pc = "w_program"
    /\ ptrs.flash_range_erase = NULL
    /\ ptrs.flash_range_program = rom_flash_range_program
    /\ Len(calls) = 2

OtherSlots(t) ==
    <<t.connect_internal_flash, t.flash_exit_xip, t.flash_range_erase,
      t.flash_range_program, t.flash_flush_cache>>

InProgress == op.name # "none" /\ pc \in WritePcs \cup ReadPcs

RestorerRun ==
    (op.name # "none" /\ pc \in Returned /\ calls # <<>>) =>
       /\ calls[Len(calls)].fn =
             IF op.use_boot2 THEN boot2_start ELSE rom_flash_enter_cmd_xip
       /\ op.use_boot2 => ~Invoked(rom_flash_enter_cmd_xip)
       /\ ~op.use_boot2 => ~Invoked(boot2_start)

SameOtherSlots ==
    /\ \A e \in BOOLEAN, w \in BOOLEAN :
          OtherSlots(flash_function_pointers_with_boot2(e, w))
             = OtherSlots(flash_function_pointers(e, w))
    /\ InProgress =>
          OtherSlots(ptrs) =
             OtherSlots(flash_function_pointers(op.name \in ErasingOps,
                                                op.name \in ProgrammingOps))

\* C18 as stated: with a snapshot the enter-XIP slot lies one instruction,
\* two bytes or more, past the snapshot's start.
C18_InstructionPast ==
    /\ (InProgress /\ op.use_boot2) =>
          ptrs.flash_enter_cmd_xip >= BOOT2_PTR + 2
    /\ (InProgress /\ ~op.use_boot2) =>
          ptrs.flash_enter_cmd_xip = rom_flash_enter_cmd_xip
    /\ SameOtherSlots
    /\ RestorerRun

\* C18: with a snapshot the enter-XIP slot is the address one byte past the
\* snapshot's start, the start address with the Thumb bit set, so that the
\* call runs the snapshot from its first instruction; every other slot is
\* the same as in the table resolved without a snapshot for the same flags;
\* with use_boot2 the last call of every operation runs the snapshot and
\* the ROM restorer is never called, and without it the last call is the
\* ROM restorer.
C18_SnapshotRestorer ==
    /\ (InProgress /\ op.use_boot2) =>
          /\ ptrs.flash_enter_cmd_xip = BOOT2_PTR + 1
          /\ Routine(W(ptrs.flash_enter_cmd_xip)) = boot2_start
    /\ (InProgress /\ ~op.use_boot2) =>
          ptrs.flash_enter_cmd_xip = rom_flash_enter_cmd_xip
    /\ SameOtherSlots
    /\ RestorerRun

C18_Witness ==
    /\ pc = "done"
    /\ op.name = "flash_range_erase_and_program"
    /\ op.use_boot2
    /\ ptrs.flash_enter_cmd_xip = BOOT2_PTR + 1
    /\ Len(calls) = 6
    /\ calls[6].fn = boot2_start
    /\ xip

\* The interval in which flash is not memory mapped, inside an operation
\* the overlay started.
OverlayWindow == OverlayWrite /\ ~xip

\* C19: whenever the sector overlay has the critical section running,
\* between exit-XIP and enter-XIP, core 0 has its interrupts disabled and
\* the second core is held in or runs ROM code.
C19_Exclusive == OverlayWindow => (primask /\ core1 = "rom")

\* The same of the write_flash of flash_example.rs.
C19_ExampleExclusive ==
    (origin.kind = "example" /\ op.name # "none" /\ ~xip) =>
       (primask /\ core1 = "rom")

C19_ExampleWitness ==
    /\ origin.kind = "example"
    /\ pc = "w_program"
    /\ ~xip
    /\ primask

\* C20: every operation that has begun reaches its enter-XIP call,
\* completes it and returns.
C20_Completes == InProgress ~> (pc \in Returned)

\* The same of every operation but a read into an empty output slice.
C20_NonEmptyCompletes ==
    (InProgress /\ ~(op.name \in ReadOps /\ op.len = 0)) ~> (pc \in Returned)

C20_Witness ==
    /\ pc = "done"
    /\ op.name = "flash_unique_id"
    /\ op.len = 8
    /\ xip
    /\ Len(calls) = 3

\* Where the read into an empty slice stays: the four dummy bytes are taken
\* out, no frame is left to receive, and the data loop polls the flag.
C20_Stuck ==
    /\ pc = "r_data_poll"
    /\ op.name = "flash_unique_id"
    /\ op.len = 0
    /\ ssi.left = 0
    /\ ssi.rx = <<>>
    /\ ~xip

\* The local buffer holds the first 256 bytes of the given flash contents.
SnapshotOf(b, f) == \A i \in 0 .. (BOOT2_SIZE - 1) : Rd(b, i) = Rd(f, i)

C21_State ==
    (InProgress /\ op.use_boot2) =>
       /\ SnapshotOf(boot2, flash)
       /\ ptrs.flash_enter_cmd_xip = boot2_fn

C21_Step ==
    /\ (~InProgress /\ InProgress' /\ op'.use_boot2) =>
          /\ xip /\ xip'
          /\ calls' = <<>>
          /\ SnapshotOf(boot2', flash)
    /\ (InProgress /\ op.use_boot2) =>
          /\ boot2' = boot2
          /\ (pc' \in Returned) =>
                /\ calls'[Len(calls')].fn = boot2_start
                /\ SnapshotOf(boot2, flash')
                /\ xip'

\* C21: with use_boot2, an operation copies the 256 bytes at the flash
\* origin into its local buffer while flash is memory mapped, before any
\* routine is called; the buffer is not modified from then until the inner
\* routine has returned, so the snapshot that the last call runs equals the
\* first 256 bytes of flash as they were before the operation.
C21_SnapshotBeforeExit == []C21_State /\ [][C21_Step]_vars

C21_Witness ==
    /\ pc = "done"
    /\ op.name = "flash_range_erase"
    /\ op.use_boot2
    /\ SnapshotOf(boot2, Boot2Image)
    /\ Rd(boot2, 1) = 181
    /\ calls[Len(calls)].fn = boot2_start
    /\ xip

\* The arguments the caller handed to the operation in progress.
EraseArgs == <<W(op.addr), W(op.len), [hi |-> 32768, lo |-> 0], W(0)>>
ProgramArgs == <<W(op.addr), W(DataPtrOf(data)), W(op.len)>>

\* C22: write_flash_inner hands the caller's arguments unchanged to the ROM
\* routines although the calls before clobber r0-r3: erase is called with
\* (addr, len, 1 << 31, 0) and program with (addr, data pointer, len), the
\* same addr and len, and in flash_range_erase_and_program len is the
\* length of the data.
C22_ArgumentsKept ==
    (op.name \in WriteOps) =>
       /\ \A i \in DOMAIN calls :
             /\ calls[i].fn = rom_flash_range_erase =>
                   calls[i].args = EraseArgs
             /\ calls[i].fn = rom_flash_range_program =>
                   /\ calls[i].args = ProgramArgs
                   /\ data.some
                   /\ op.len = data.len
       /\ pc \in {"w_exit_xip", "w_erase", "w_program"} =>
             /\ regs.r8 = W(op.addr)
             /\ regs.r9 = W(DataPtrOf(data))
             /\ regs.r10 = W(op.len)

C22_Witness ==
    /\ pc = "done"
    /\ op.name = "flash_range_erase_and_program"
    /\ op.len = FLASH_SECTOR_SIZE
    /\ Len(calls) = 6
    /\ calls[3].args = EraseArgs
    /\ calls[4].args = ProgramArgs
    /\ calls[3].args[1] = calls[4].args[1]
    /\ calls[3].args[2] = calls[4].args[3]
    /\ regs.r0 # W(op.addr)

\* C23: the counter a boot obtains by read-or-default is never smaller than
\* the counter an earlier boot obtained, whether the earlier boot ran to its
\* blink loop or was cut short during its update.  The boots after the
\* counter has reached u32::MAX are left aside here.
C23_Monotonic ==
    (/\ pc # "boot"
     /\ conf.validity = VALIDITY_MARKER
     /\ earlier.some
     /\ earlier.max # W_MAX) =>
       WLe(earlier.max, Conf_boot_counter(conf))

\* Where the counter is lost: the sector is erased, not yet programmed.
C23_ErasedAtLoss ==
    /\ pc = "boot"
    /\ earlier.some
    /\ earlier.losses > 0
    /\ earlier.max # W(0)
    /\ SectorErased

\* The update of the boot in hand has persisted its record; and the boot
\* was aborted by the increment, before a sector was built.
UpdatePersisted == pc = "m_reread" /\ origin.kind = "new"
AbortedAtIncrement ==
    pc = "panic" /\ conf.validity = VALIDITY_MARKER /\ origin.kind # "new"

ExactIncrement ==
    /\ UpdatePersisted =>
          /\ StoredRecord.validity = VALIDITY_MARKER
          /\ StoredRecord.boot_counter = WAdd(Conf_boot_counter(conf), W(1))
          /\ ~WLe(StoredRecord.boot_counter, Conf_boot_counter(conf))
    /\ ~AbortedAtIncrement

\* C24: for every valid stored counter c, c = 4294967295 included, the
\* update persists a record whose counter is c + 1 as an integer: the
\* increment does not wrap to 0 and does not abort the boot before the
\* write.
C24_ExactIncrement == ExactIncrement

\* The same of the counters below 4294967295.
C24_BelowMax == Conf_boot_counter(conf) # W_MAX => ExactIncrement

C24_Witness ==
    /\ UpdatePersisted
    /\ Conf_boot_counter(conf) = W(7)
    /\ StoredRecord.boot_counter = W(8)

\* The two outcomes at c = 4294967295.
C24_Wrapped ==
    /\ UpdatePersisted
    /\ Conf_boot_counter(conf) = W_MAX
    /\ StoredRecord.boot_counter = W(0)

C24_Aborted == AbortedAtIncrement /\ Conf_boot_counter(conf) = W_MAX

\* The registers each asm block names as input, output or clobber: r0-r3
\* by in(..), out(..) and clobber_abi("C"), r4 and r8-r10 by out(..); in
\* write_flash_inner the table pointer is an input in a register of the
\* compiler's choice, rp.
Declared == {"r0", "r1", "r2", "r3", "r4", "r8", "r9", "r10"}

\* The registers as the caller had them when the routine was entered.
EntryRegs ==
    IF op.name \in WriteOps THEN [ZeroRegs EXCEPT !.rp = W(PTRS_PTR)]
    ELSE ZeroRegs

Running == op.name # "none" /\ pc \in WritePcs \cup ReadPcs \cup Returned

OnlyDeclaredWritten ==
    \A r \in (DOMAIN regs) \ Declared : regs[r] = EntryRegs[r]

\* The register with the table pointer: rp in write_flash_inner, r5 in
\* read_flash_inner once its second instruction has run.
TablePointerKept ==
    /\ (op.name \in WriteOps /\ pc \in WritePcs) => regs.rp = W(PTRS_PTR)
    /\ (op.name \in ReadOps /\ pc \in ReadPcs \ {"r_connect"}) =>
          regs.r5 = W(PTRS_PTR)

\* C25: across write_flash_inner and across read_flash_inner no register
\* outside the set the asm block declares changes value, and the register
\* with the table pointer keeps its value across every ROM call.
C25_DeclaredRegisters == Running => (OnlyDeclaredWritten /\ TablePointerKept)

\* The same of write_flash_inner alone, and the table pointer in both.
C25_WriteDeclared ==
    /\ (Running /\ op.name \in WriteOps) => OnlyDeclaredWritten
    /\ Running => TablePointerKept

C25_Witness ==
    /\ pc = "done"
    /\ op.name = "flash_range_erase_and_program"
    /\ regs.r8 = W(op.addr)
    /\ regs.rp = W(PTRS_PTR)
    /\ regs.r5 = W(0)

\* What read_flash_inner leaves in r5 and r7.
C25_Left ==
    /\ pc = "done"
    /\ op.name = "flash_jedec_id"
    /\ regs.r5 = W(PTRS_PTR)
    /\ regs.r7 = W(CMD_PTR)

====
